---------------------------- MODULE Spec2Model ----------------------------
(***************************************************************************)
(* A model of the Polymarket arbitrage bot: the opportunity detector       *)
(* (scanner.rs check_arbitrage), the market-pair registry (scanner.rs      *)
(* refresh_markets / extract_market_pair / get_watched_token_ids), the     *)
(* polling orchestrator (main.rs run_polling_mode / handle_opportunity),   *)
(* the dual-leg execution (client.rs execute_arbitrage), the streaming     *)
(* orchestrator (run_websocket_mode) with the price feed it consumes       *)
(* (websocket.rs), and main() from its initial refresh to the loop it      *)
(* enters, with the lock around the run statistics.                        *)
(*                                                                         *)
(* rust_decimal::Decimal values are fixed-point; every Decimal of the      *)
(* model is an integer count of thousandths (0.99 is 990, 10.0 is 10000).  *)
(* Decimal + and - are exact on such values, so they are integer + and -.  *)
(* Option<T> is a sequence: <<>> is None and <<x>> is Some(x).             *)
(***************************************************************************)
EXTENDS Integers, Sequences, FiniteSets, TLC

VARIABLES
    config,          \* Config of the component under check (fixed by Init)
    \* ---- detector harness (check_arbitrage applied to chosen books)
    det_book_map,    \* the token_id -> OrderBook map handed to check_arbitrage
    det_calls,       \* how many times it was evaluated on det_book_map
    det_opp,         \* result of the first evaluation
    det_opp2,        \* result of the second evaluation of the same inputs
    \* ---- market-pair registry (ArbitrageScanner.market_cache and its users)
    phase,           \* main(): "startup", "running", "exited_ok", "exited_err"
    market_cache,    \* DashMap condition_id -> MarketPair
    cache_origin,    \* history: condition_id -> the Market its entry came from
    ref_pc,          \* refresh_markets: "idle", "fetching", "inserting"
    ref_caller,      \* who called it: "main" (initial refresh) or "loop"
    ref_markets,     \* refresh_markets: markets, truncated to max_markets
    ref_i,           \* refresh_markets: how many of them its loop has visited
    ref_count,       \* refresh_markets: count
    ref_result,      \* what the last refresh_markets call returned
    ref_fetch,       \* how its market-list fetch ended: "none", "ok", "err"
    ref_pre,         \* history: market_cache when the current call began
    snapshot,        \* token ids the last registry read returned
    read_pre,        \* history: token ids cached before the refresh it met
    read_post,       \* history: token ids cached once that refresh is over
    \* ---- polling orchestrator (run_polling_mode and what it calls)
    poll_pc,         \* "tick", "handling", "signing", "posting" (the loop);
                     \* "scan", "fetching_books", "scanned" (one scan)
    refresh_counter, \* run_polling_mode: refresh_counter
    ticks_left,      \* ticks the model still lets the loop start
    stats,           \* BotStats
    scan_pairs,      \* scan_opportunities: pairs
    scan_books,      \* scan_opportunities: book_map
    scan_result,     \* what scan_opportunities returned: None, Some(Ok/Err)
    scan_opps,       \* run_polling_mode: opportunities
    opp_i,           \* how many of them the for loop has handled
    exec,            \* the execute_arbitrage call in progress and its effects
    \* ---- the RwLock around BotStats and what its readers have printed
    stats_lock,      \* "free" or "write" (a write guard is alive)
    stats_seen,      \* what the last statistics print read, if any
    \* ---- streaming orchestrator (the reconnection loop of run_websocket_mode)
    ws_pc,           \* "off", "connecting", "streaming", "sleeping"
    reconnect_delay, \* run_websocket_mode: reconnect_delay, in seconds
    ws_attempts_left,\* connection attempts the model still lets the loop make
    ws_connects,     \* history: how many attempts succeeded
    ws_waited,       \* history: the delays slept since the last success
    \* ---- price feed (WsClient, its reader task, and their consumer)
    feed_state,      \* "Disconnected", "Connecting", "Subscribed", "Streaming"
    feed_token_ids,  \* token_ids handed to WsClient::connect
    feed_subs,       \* subscription messages sent on the current connection
    feed_pending,    \* events of the frame the reader task is handling
    feed_frames_left,\* data frames the model still lets the venue send
    feed_log,        \* history: what each frame read was, oldest first
    chan,            \* the mpsc channel of PriceUpdate, oldest first
    chan_open,       \* its Sender (held by the reader task) is alive
    prices           \* run_websocket_mode: prices, asset_id -> PriceUpdate

detVars == <<det_book_map, det_calls, det_opp, det_opp2>>
regVars == <<phase, market_cache, cache_origin, ref_pc, ref_caller, ref_markets, ref_i,
             ref_count, ref_result, ref_fetch, ref_pre, snapshot, read_pre,
             read_post>>
pollVars == <<poll_pc, refresh_counter, ticks_left, stats, scan_pairs,
              scan_books, scan_result, scan_opps, opp_i, exec>>
wsVars == <<ws_pc, reconnect_delay, ws_attempts_left, ws_connects, ws_waited>>
feedVars == <<feed_state, feed_token_ids, feed_subs, feed_pending,
              feed_frames_left, feed_log, chan, chan_open, prices>>
lockVars == <<stats_lock, stats_seen>>
vars == <<config, detVars, regVars, pollVars, wsVars, feedVars, lockVars>>

-----------------------------------------------------------------------------
(* Bounds *)

\* longest ask side of an order book handed to the detector
MaxAsks == 2

\* longest market listing the venue returns to a refresh
MaxListing == 3

\* ticks of the polling loop that are explored
MaxTicks == 2

\* connection attempts of the streaming loop that are explored
MaxAttempts == 10

\* connection attempts explored when the feed is followed frame by frame
StreamAttempts == 8

\* data frames the venue sends in a run of the feed
MaxFrames == 2

\* most events in one frame
MaxBatch == 2

\* capacity of the PriceUpdate channel that is explored (the source's
\* mpsc::channel has 1000 slots)
ChanCap == 2

-----------------------------------------------------------------------------
(* Option and small helpers *)

None == <<>>

Some(x) == <<x>>

IsSome(o) == Len(o) = 1

Unwrap(o) == o[1]

\* Decimal::ONE, in thousandths
ONE == 1000

\* Decimal::min
DecMin(a, b) == IF a <= b THEN a ELSE b

SeqsUpTo(S, n) == UNION {[1..k -> S] : k \in 0..n}

-----------------------------------------------------------------------------
(* Data *)

\* OrderBookEntry values the venue returns (price, size), in thousandths
AskEntries ==
    { [price |-> 400, size |-> 100000],
      [price |-> 550, size |-> 50000],
      [price |-> 590, size |-> 50000],
      [price |-> 595, size |-> 100000],
      [price |-> 600, size |-> 100000] }

\* The asks of one OrderBook: any order, the venue's reply is taken as is
AskSides == SeqsUpTo(AskEntries, MaxAsks)

OrderBook(token, asks) == [asset_id |-> token, bids |-> <<>>, asks |-> asks]

\* The pair the detector harness evaluates
DetPair ==
    [condition_id |-> "m1", yes_token_id |-> "t1", no_token_id |-> "t2",
     description |-> "m1?"]

\* Every book_map over the two tokens of DetPair: each token's book may be absent
DetBookMaps ==
    { bm \in UNION {[D -> [asset_id : {"t1", "t2"}, bids : {<<>>}, asks : AskSides]] :
                        D \in SUBSET {"t1", "t2"}} :
        \A t \in DOMAIN bm : bm[t].asset_id = t }

\* Config::default
DefaultConfig ==
    [ max_combined_price   |-> 990,
      min_profit_threshold |-> 5,
      order_size           |-> 10000,
      poll_interval_ms     |-> 2000,
      use_websocket        |-> TRUE,
      max_markets          |-> 50,
      crypto_only          |-> TRUE,
      dry_run              |-> TRUE ]

\* The default thresholds, and two other settings of them
DetConfigs ==
    { DefaultConfig,
      [DefaultConfig EXCEPT !.min_profit_threshold = 50],
      [DefaultConfig EXCEPT !.max_combined_price = 999,
                            !.min_profit_threshold = 10] }

-----------------------------------------------------------------------------
(* scanner.rs: the detector *)

\* The ask check_arbitrage takes from a book: asks.first()
first_ask(book) == IF Len(book.asks) = 0 THEN None ELSE Some(book.asks[1])

\* mutant of is_profitable: the ceiling on combined_price made inclusive
is_profitable_inclusive_ceiling(cfg, combined_price, profit_per_share) ==
    /\ combined_price <= cfg.max_combined_price
    /\ profit_per_share >= cfg.min_profit_threshold

\* mutant of is_profitable: the floor on profit_per_share made exclusive
is_profitable_exclusive_floor(cfg, combined_price, profit_per_share) ==
    /\ combined_price < cfg.max_combined_price
    /\ profit_per_share > cfg.min_profit_threshold

\* The "Check if profitable" condition of check_arbitrage
is_profitable(cfg, combined_price, profit_per_share) ==
    /\ combined_price < cfg.max_combined_price
    /\ profit_per_share >= cfg.min_profit_threshold

\* mutant of max_size_of: the yes side's size alone
max_size_of_yes_only(yes_ask, no_ask) == yes_ask.size

\* "Max size is limited by the smaller order book side"
max_size_of(yes_ask, no_ask) == DecMin(yes_ask.size, no_ask.size)

\* The byte the "No YES asks" / "No NO asks" logs cut the description at
DescLogBytes == 30

\* A question with a character of three bytes (written E here, a euro sign
\* at the venue) after 29 characters of one byte
EuroQuestion == "Will Bitcoin close above 100kE this week?"

\* The number of bytes the i-th character of str takes in UTF-8
utf8_width(str, i) == IF str = EuroQuestion /\ i = 30 THEN 3 ELSE 1

\* The bytes of the first k characters of str
RECURSIVE bytes_upto(_, _)
bytes_upto(str, k) ==
    IF k = 0 THEN 0 ELSE utf8_width(str, k) + bytes_upto(str, k - 1)

\* str::len: the length in bytes
byte_len(str) == bytes_upto(str, Len(str))

\* str::is_char_boundary
is_char_boundary(str, n) == \E k \in 0..Len(str) : bytes_upto(str, k) = n

\* `description.len().min(30)`
slice_end(description) ==
    LET len == byte_len(description)
    IN  IF len <= DescLogBytes THEN len ELSE DescLogBytes

\* `&description[..end]` panics when end falls inside a character
slice_panics(description) ==
    ~is_char_boundary(description, slice_end(description))

\* check_arbitrage reaches one of its info! logs, "No YES asks for" or
\* "No NO asks for": both books are in book_map and one has no ask.  (The
\* arguments of its debug! logs, for a book absent from book_map, are not
\* evaluated at the INFO level main sets.)
logs_no_asks(pair, book_map) ==
    /\ pair.yes_token_id \in DOMAIN book_map
    /\ pair.no_token_id \in DOMAIN book_map
    /\ \/ first_ask(book_map[pair.yes_token_id]) = None
       \/ first_ask(book_map[pair.no_token_id]) = None

\* The descriptions a cached pair can have: a listed market's question, or
\* "Unknown" for a market without one
Descriptions ==
    { "Unknown", EuroQuestion, "m1?", "m3?", "m4?", "m5?", "m6?", "m7?",
      "m8?", "m9?" }

\* Those of them the cut of the logs panics on
UncuttableDescriptions == { d \in Descriptions : slice_panics(d) }

\* Whether check_arbitrage panics instead of returning: the description
\* cannot be cut at byte 30 and a log that cuts it is reached
check_arbitrage_panics(pair, book_map) ==
    /\ pair.description \in UncuttableDescriptions
    /\ logs_no_asks(pair, book_map)

\* mutant of new_opportunity: the size offered shrinks with the time of
\* detection
new_opportunity_aging(pair, yes_ask, no_ask, now) ==
    [ market_id        |-> pair.condition_id,
      yes_token_id     |-> pair.yes_token_id,
      no_token_id      |-> pair.no_token_id,
      yes_ask_price    |-> yes_ask.price,
      no_ask_price     |-> no_ask.price,
      combined_price   |-> yes_ask.price + no_ask.price,
      profit_per_share |-> ONE - (yes_ask.price + no_ask.price),
      max_size         |-> max_size_of(yes_ask, no_ask) \div now,
      timestamp        |-> now ]

\* The ArbitrageOpportunity check_arbitrage returns for a profitable pair
new_opportunity(pair, yes_ask, no_ask, now) ==
    [ market_id        |-> pair.condition_id,
      yes_token_id     |-> pair.yes_token_id,
      no_token_id      |-> pair.no_token_id,
      yes_ask_price    |-> yes_ask.price,
      no_ask_price     |-> no_ask.price,
      combined_price   |-> yes_ask.price + no_ask.price,
      profit_per_share |-> ONE - (yes_ask.price + no_ask.price),
      max_size         |-> max_size_of(yes_ask, no_ask),
      timestamp        |-> now ]

\* ArbitrageScanner::check_arbitrage; now is chrono::Utc::now()
check_arbitrage(cfg, pair, book_map, now) ==
    IF pair.yes_token_id \notin DOMAIN book_map THEN None
    ELSE IF pair.no_token_id \notin DOMAIN book_map THEN None
    ELSE
      LET yes_book == book_map[pair.yes_token_id]
          no_book  == book_map[pair.no_token_id]
      IN  IF first_ask(yes_book) = None THEN None
          ELSE IF first_ask(no_book) = None THEN None
          ELSE
            LET yes_ask == Unwrap(first_ask(yes_book))
                no_ask  == Unwrap(first_ask(no_book))
                combined_price   == yes_ask.price + no_ask.price
                profit_per_share == ONE - combined_price
            IN  IF is_profitable(cfg, combined_price, profit_per_share)
                THEN Some(new_opportunity(pair, yes_ask, no_ask, now))
                ELSE None

-----------------------------------------------------------------------------
(* Detector harness: Init draws the thresholds and the books, the actions   *)
(* apply check_arbitrage to them, twice                                    *)

\* The detector harness at rest (the other specifications keep it there)
DetIdle ==
    /\ det_book_map = <<>>
    /\ det_calls = 0
    /\ det_opp = None
    /\ det_opp2 = None

\* The streaming loop not entered
WsIdle ==
    /\ ws_pc = "off"
    /\ reconnect_delay = 0
    /\ ws_attempts_left = 0
    /\ ws_connects = 0
    /\ ws_waited = <<>>

\* No feed was ever connected
FeedIdle ==
    /\ feed_state = "Disconnected"
    /\ feed_token_ids = {}
    /\ feed_subs = <<>>
    /\ feed_pending = <<>>
    /\ feed_frames_left = 0
    /\ feed_log = <<>>
    /\ chan = <<>>
    /\ chan_open = FALSE
    /\ prices = <<>>

\* The registry before main() has run
RegIdle ==
    /\ phase = "startup"
    /\ market_cache = <<>>
    /\ cache_origin = <<>>
    /\ ref_pc = "idle"
    /\ ref_caller = "main"
    /\ ref_markets = <<>>
    /\ ref_i = 0
    /\ ref_count = 0
    /\ ref_result = None
    /\ ref_fetch = "none"
    /\ ref_pre = <<>>
    /\ snapshot = {}
    /\ read_pre = {}
    /\ read_post = {}

\* A leg's post_order: not issued, or issued and not yet answered
PostIdle == [kind |-> "idle", success |-> FALSE, error_msg |-> None]

PostPending == [kind |-> "pending", success |-> FALSE, error_msg |-> None]

\* The orchestrator before its loop has started
ExecIdle ==
    [ calls |-> 0, signed |-> 0, submitted |-> 0, alerts |-> 0,
      unhedged |-> None, size |-> 0, orders |-> <<>>,
      sign |-> [yes |-> "idle", no |-> "idle"],
      post |-> [yes |-> PostIdle, no |-> PostIdle],
      first |-> None,
      returned |-> None ]

PollIdle ==
    /\ poll_pc = "tick"
    /\ refresh_counter = 0
    /\ ticks_left = 0
    /\ stats = [ opportunities_found |-> 0, trades_executed |-> 0,
                 trades_successful |-> 0, total_profit |-> 0,
                 scans_completed |-> 0 ]
    /\ scan_pairs = <<>>
    /\ scan_books = <<>>
    /\ scan_result = None
    /\ scan_opps = <<>>
    /\ opp_i = 0
    /\ exec = ExecIdle
    /\ stats_lock = "free"
    /\ stats_seen = None

DetInit ==
    /\ config \in DetConfigs
    /\ det_book_map \in DetBookMaps
    /\ det_calls = 0
    /\ det_opp = None
    /\ det_opp2 = None
    /\ RegIdle
    /\ PollIdle
    /\ WsIdle
    /\ FeedIdle

\* The call of check_arbitrage on the fetched books
Evaluate ==
    /\ det_calls = 0
    /\ det_calls' = 1
    /\ det_opp' = check_arbitrage(config, DetPair, det_book_map, 1)
    /\ UNCHANGED <<config, lockVars, feedVars, wsVars, det_book_map, det_opp2, regVars, pollVars>>

\* A second call on the same pair, books and thresholds, at a later instant
ReEvaluate ==
    /\ det_calls = 1
    /\ det_calls' = 2
    /\ det_opp2' = check_arbitrage(config, DetPair, det_book_map, 2)
    /\ UNCHANGED <<config, lockVars, feedVars, wsVars, det_book_map, det_opp, regVars, pollVars>>

DetNext == Evaluate \/ ReEvaluate

SpecDetector == DetInit /\ [][DetNext]_vars

-----------------------------------------------------------------------------
(* Claims about the detector (checked under SpecDetector) *)

\* Both books are in the map and both have at least one ask
DetBothHaveAsk ==
    /\ {"t1", "t2"} \subseteq DOMAIN det_book_map
    /\ Len(det_book_map["t1"].asks) > 0
    /\ Len(det_book_map["t2"].asks) > 0

\* The two asks the detector takes (the first entry of each ask side)
DetYesTaken == det_book_map["t1"].asks[1]

DetNoTaken == det_book_map["t2"].asks[1]

DetCombined == DetYesTaken.price + DetNoTaken.price

\* The lowest-priced entries of an ask side
LowestAsks(asks) ==
    { asks[i] : i \in { j \in 1..Len(asks) :
                          \A k \in 1..Len(asks) : asks[j].price <= asks[k].price } }

\* C1: with an ask on both sides, an opportunity is returned iff
\* combined_price < max_combined_price and 1 - combined_price >=
\* min_profit_threshold; combined_price = max_combined_price never signals.
C1_SignalIff ==
    (det_calls >= 1 /\ DetBothHaveAsk) =>
        /\ IsSome(det_opp) <=>
              (/\ DetCombined < config.max_combined_price
               /\ ONE - DetCombined >= config.min_profit_threshold)
        /\ (DetCombined = config.max_combined_price => det_opp = None)

\* C1 witness: evaluated at the boundary combined_price = max_combined_price
C1_Witness ==
    /\ det_calls >= 1
    /\ DetBothHaveAsk
    /\ DetCombined = config.max_combined_price
    /\ det_opp = None

\* C2 as stated: with an ask on both sides, profit_per_share equal to
\* min_profit_threshold always signals, whatever the configuration.
C2_FloorAlwaysSignals ==
    (det_calls >= 1 /\ DetBothHaveAsk
       /\ ONE - DetCombined = config.min_profit_threshold) => IsSome(det_opp)

\* C2 amended: profit_per_share equal to min_profit_threshold signals
\* whenever combined_price is also below max_combined_price.
C2_FloorSignalsBelowCeiling ==
    (det_calls >= 1 /\ DetBothHaveAsk
       /\ ONE - DetCombined = config.min_profit_threshold
       /\ DetCombined < config.max_combined_price) => IsSome(det_opp)

\* C2 witness: profit exactly at the floor, below the ceiling, signaled
C2_Witness ==
    /\ det_calls >= 1
    /\ DetBothHaveAsk
    /\ ONE - DetCombined = config.min_profit_threshold
    /\ DetCombined < config.max_combined_price
    /\ IsSome(det_opp)

\* C3: a returned opportunity has combined_price = yes_ask_price +
\* no_ask_price, profit_per_share = 1 - combined_price and max_size = the
\* smaller of the two taken asks' sizes, and a second evaluation of the same
\* inputs returns the same three values.
C3_ExactFields ==
    IsSome(det_opp) =>
        LET o == Unwrap(det_opp) IN
        /\ o.yes_ask_price = DetYesTaken.price
        /\ o.no_ask_price = DetNoTaken.price
        /\ o.combined_price = o.yes_ask_price + o.no_ask_price
        /\ o.profit_per_share = ONE - o.combined_price
        /\ o.max_size = DecMin(DetYesTaken.size, DetNoTaken.size)
        /\ det_calls = 2 =>
              /\ IsSome(det_opp2)
              /\ Unwrap(det_opp2).combined_price = o.combined_price
              /\ Unwrap(det_opp2).profit_per_share = o.profit_per_share
              /\ Unwrap(det_opp2).max_size = o.max_size

\* C3 witness: the spec's example (0.40 x 100 and 0.55 x 50 at the default
\* thresholds give 0.95, 0.05 and 50), evaluated twice
C3_Witness ==
    /\ det_calls = 2
    /\ config.max_combined_price = 990 /\ config.min_profit_threshold = 5
    /\ IsSome(det_opp) /\ IsSome(det_opp2)
    /\ Unwrap(det_opp).yes_ask_price = 400 /\ Unwrap(det_opp).no_ask_price = 550
    /\ Unwrap(det_opp).combined_price = 950
    /\ Unwrap(det_opp).profit_per_share = 50
    /\ Unwrap(det_opp).max_size = 50000
    /\ Unwrap(det_opp2).timestamp # Unwrap(det_opp).timestamp

\* C4 as stated: the price and size used for each leg are those of a
\* lowest-priced ask entry of that leg's book, whatever the entries' order.
C4_BestAskUsed ==
    IsSome(det_opp) =>
        /\ \E a \in LowestAsks(det_book_map["t1"].asks) :
              Unwrap(det_opp).yes_ask_price = a.price
        /\ \E a \in LowestAsks(det_book_map["t2"].asks) :
              Unwrap(det_opp).no_ask_price = a.price
        /\ \E a \in LowestAsks(det_book_map["t1"].asks) :
           \E b \in LowestAsks(det_book_map["t2"].asks) :
              Unwrap(det_opp).max_size = DecMin(a.size, b.size)

-----------------------------------------------------------------------------
(* scanner.rs: the market-pair registry *)

\* Strings that are compared after to_lowercase() are sequences of characters
LowerPairs ==
    { <<"Y", "y">>, <<"E", "e">>, <<"S", "s">>, <<"N", "n">>, <<"O", "o">>,
      <<"U", "u">>, <<"P", "p">>, <<"D", "d">>, <<"W", "w">> }

LowerChar(c) ==
    IF \E p \in LowerPairs : p[1] = c
    THEN (CHOOSE p \in LowerPairs : p[1] = c)[2]
    ELSE c

\* str::to_lowercase
to_lowercase(str) == [i \in 1..Len(str) |-> LowerChar(str[i])]

Str_yes == <<"y", "e", "s">>

Str_no == <<"n", "o">>

Token(id, outcome) == [token_id |-> id, outcome |-> outcome]

Market(cid, question, tokens) ==
    [condition_id |-> cid, question |-> question, tokens |-> tokens]

\* The markets a listing of the venue is made of: three that qualify (labels
\* in either order and any case), and one each with three tokens, two yes,
\* two no, neither label, one token and no token
MarketChoices ==
    { Market("m1", Some("m1?"), << Token("t1", <<"Y", "e", "s">>),
                                   Token("t2", <<"N", "o">>) >>),
      Market("m2", None,        << Token("t3", <<"N", "O">>),
                                   Token("t4", <<"y", "e", "s">>) >>),
      Market("m3", Some("m3?"), << Token("t5", <<"Y", "e", "s">>),
                                   Token("t6", <<"N", "o">>),
                                   Token("t7", <<"U", "p">>) >>),
      Market("m4", Some("m4?"), << Token("t8", <<"Y", "e", "s">>),
                                   Token("t9", <<"Y", "E", "S">>) >>),
      Market("m5", Some("m5?"), << Token("ta", <<"n", "o">>),
                                   Token("tb", <<"N", "o">>) >>),
      Market("m6", Some("m6?"), << Token("tc", <<"U", "p">>),
                                   Token("td", <<"D", "o", "w", "n">>) >>),
      Market("m7", Some("m7?"), << Token("te", <<"Y", "e", "s">>) >>),
      Market("m8", Some("m8?"), << >>),
      Market("m9", Some("m9?"), << Token("tf", <<"Y", "E", "S">>),
                                   Token("tg", <<"n", "o">>) >>) }

\* A market that qualifies and whose question is EuroQuestion
EuroMarket ==
    Market("m0", Some(EuroQuestion), << Token("th", <<"Y", "e", "s">>),
                                        Token("ti", <<"N", "o">>) >>)

\* What get_markets / get_crypto_markets can return
Listings == SeqsUpTo(MarketChoices, MaxListing)

\* Iterator::take
Take(seq, n) == SubSeq(seq, 1, IF Len(seq) <= n THEN Len(seq) ELSE n)

\* DashMap::insert / HashMap::insert
MapInsert(map, k, v) ==
    [x \in DOMAIN map \cup {k} |-> IF x = k THEN v ELSE map[x]]

\* The loop of extract_market_pair over the tokens after position i:
\* acc is <<yes_token, no_token>>
RECURSIVE scan_tokens(_, _, _)
scan_tokens(tokens, i, acc) ==
    IF i > Len(tokens) THEN acc
    ELSE LET lower == to_lowercase(tokens[i].outcome)
             next  == IF lower = Str_yes THEN <<Some(tokens[i].token_id), acc[2]>>
                      ELSE IF lower = Str_no THEN <<acc[1], Some(tokens[i].token_id)>>
                      ELSE acc
         IN  scan_tokens(tokens, i + 1, next)

\* mutant of extract_market_pair: the token count is not checked
extract_market_pair_any_len(market) ==
    LET found == scan_tokens(market.tokens, 1, <<None, None>>)
    IN  IF IsSome(found[1]) /\ IsSome(found[2])
        THEN Some([ condition_id |-> market.condition_id,
                    yes_token_id |-> Unwrap(found[1]),
                    no_token_id  |-> Unwrap(found[2]),
                    description  |-> IF IsSome(market.question)
                                     THEN Unwrap(market.question) ELSE "Unknown" ])
        ELSE None

\* ArbitrageScanner::extract_market_pair
extract_market_pair(market) ==
    IF Len(market.tokens) # 2 THEN None
    ELSE
      LET found == scan_tokens(market.tokens, 1, <<None, None>>)
      IN  IF IsSome(found[1]) /\ IsSome(found[2])
          THEN Some([ condition_id |-> market.condition_id,
                      yes_token_id |-> Unwrap(found[1]),
                      no_token_id  |-> Unwrap(found[2]),
                      description  |-> IF IsSome(market.question)
                                       THEN Unwrap(market.question) ELSE "Unknown" ])
          ELSE None

\* One iteration of the loop of refresh_markets on the cache
refresh_insert(cache, market) ==
    LET pair == extract_market_pair(market)
    IN  IF IsSome(pair)
        THEN MapInsert(cache, Unwrap(pair).condition_id, Unwrap(pair))
        ELSE cache

\* The cache the loop of refresh_markets leaves once it has visited
\* markets[i], markets[i+1], ...
RECURSIVE refresh_inserts(_, _, _)
refresh_inserts(cache, markets, i) ==
    IF i > Len(markets) THEN cache
    ELSE refresh_inserts(refresh_insert(cache, markets[i]), markets, i + 1)

\* The token ids of every cached pair (the order of a DashMap iteration is
\* unspecified, so the Vec is modelled by its set of elements)
TokensOf(cache) ==
    UNION { {cache[c].yes_token_id, cache[c].no_token_id} : c \in DOMAIN cache }

\* Result<usize>
Ok(n) == [ok |-> TRUE, val |-> n]

Err == [ok |-> FALSE, val |-> 0]

-----------------------------------------------------------------------------
(* The registry and its callers: main()'s initial refresh, the periodic    *)
(* refresh of either mode, and the reads of the cache.  In streaming mode  *)
(* the refresh runs in a task of its own (tokio::spawn on the multi-thread *)
(* runtime), so each DashMap insert is a step other tasks interleave with; *)
(* in polling mode refresh and scan alternate in one loop.                 *)

RegConfigs ==
    { [DefaultConfig EXCEPT !.max_markets = 2, !.use_websocket = ws] :
        ws \in BOOLEAN }

RegInit ==
    /\ config \in RegConfigs
    /\ RegIdle
    /\ DetIdle
    /\ WsIdle
    /\ FeedIdle
    /\ PollIdle

\* refresh_markets is called: by main() at startup, then by run_polling_mode
\* every 100th tick or by the refresh task of run_websocket_mode
BeginRefresh ==
    /\ phase \in {"startup", "running"}
    /\ ref_pc = "idle"
    /\ ref_pc' = "fetching"
    /\ ref_caller' = IF phase = "startup" THEN "main" ELSE "loop"
    /\ ref_markets' = <<>>
    /\ ref_i' = 0
    /\ ref_count' = 0
    /\ ref_result' = None
    /\ ref_fetch' = "none"
    /\ ref_pre' = market_cache
    /\ UNCHANGED <<config, lockVars, feedVars, wsVars, detVars, pollVars, phase, market_cache, cache_origin, snapshot,
                   read_pre, read_post>>

\* mutant of FetchErr: the cache is emptied when the fetch fails
FetchErr_clears_cache ==
    /\ ref_pc = "fetching"
    /\ ref_pc' = "idle"
    /\ ref_fetch' = "err"
    /\ ref_result' = Some(Err)
    /\ market_cache' = <<>>
    /\ cache_origin' = <<>>
    /\ phase' = IF phase = "startup" THEN "exited_err" ELSE phase
    /\ UNCHANGED <<config, lockVars, feedVars, wsVars, detVars, pollVars, ref_caller, ref_markets, ref_i, ref_count,
                   ref_pre, snapshot, read_pre, read_post>>

\* The market-list fetch fails: `?` returns the error; main() returns it too
\* (the process ends), the two loops log it and go on
FetchErr ==
    /\ ref_pc = "fetching"
    /\ ref_pc' = "idle"
    /\ ref_fetch' = "err"
    /\ ref_result' = Some(Err)
    /\ phase' = IF phase = "startup" THEN "exited_err" ELSE phase
    /\ UNCHANGED <<config, lockVars, feedVars, wsVars, detVars, pollVars, market_cache, cache_origin, ref_caller,
                   ref_markets, ref_i, ref_count, ref_pre, snapshot, read_pre,
                   read_post>>

\* The market-list fetch succeeds: markets.into_iter().take(max_markets)
FetchOk ==
    /\ ref_pc = "fetching"
    /\ \E listing \in Listings :
          ref_markets' = Take(listing, config.max_markets)
    /\ ref_pc' = "inserting"
    /\ ref_fetch' = "ok"
    /\ UNCHANGED <<config, lockVars, feedVars, wsVars, detVars, pollVars, phase, market_cache, cache_origin,
                   ref_caller, ref_i, ref_count, ref_result, ref_pre, snapshot,
                   read_pre, read_post>>

\* One iteration of the loop: extract the pair, insert it, count it
InsertStep ==
    /\ ref_pc = "inserting"
    /\ ref_i < Len(ref_markets)
    /\ LET market == ref_markets[ref_i + 1]
           pair   == extract_market_pair(market)
       IN  /\ market_cache' = refresh_insert(market_cache, market)
           /\ cache_origin' = IF IsSome(pair)
                              THEN MapInsert(cache_origin, Unwrap(pair).condition_id,
                                             market)
                              ELSE cache_origin
           /\ ref_count' = IF IsSome(pair) THEN ref_count + 1 ELSE ref_count
    /\ ref_i' = ref_i + 1
    /\ UNCHANGED <<config, lockVars, feedVars, wsVars, detVars, pollVars, phase, ref_pc, ref_caller, ref_markets,
                   ref_result, ref_fetch, ref_pre, snapshot, read_pre, read_post>>

\* Ok(count); main() exits when its initial refresh counted no market
RefreshReturn ==
    /\ ref_pc = "inserting"
    /\ ref_i = Len(ref_markets)
    /\ ref_pc' = "idle"
    /\ ref_result' = Some(Ok(ref_count))
    /\ phase' = IF phase = "startup"
                THEN (IF ref_count = 0 THEN "exited_ok" ELSE "running")
                ELSE phase
    /\ UNCHANGED <<config, lockVars, feedVars, wsVars, detVars, pollVars, market_cache, cache_origin, ref_caller,
                   ref_markets, ref_i, ref_count, ref_fetch, ref_pre, snapshot,
                   read_pre, read_post>>

\* A read of the whole cache; the history variables record what the cache
\* held before the refresh the read meets and what it holds after it
ReadCache ==
    /\ snapshot' = TokensOf(market_cache)
    /\ read_pre' = TokensOf(IF ref_pc = "inserting" THEN ref_pre ELSE market_cache)
    /\ read_post' = TokensOf(IF ref_pc = "inserting"
                             THEN refresh_inserts(market_cache, ref_markets, ref_i + 1)
                             ELSE market_cache)
    /\ UNCHANGED <<config, lockVars, feedVars, wsVars, detVars, pollVars, phase, market_cache, cache_origin, ref_pc,
                   ref_caller, ref_markets, ref_i, ref_count, ref_result,
                   ref_fetch, ref_pre>>

\* ArbitrageScanner::get_watched_token_ids, called by the reconnection loop
\* of run_websocket_mode while the refresh task runs
get_watched_token_ids ==
    /\ phase = "running"
    /\ config.use_websocket
    /\ ReadCache

\* The pairs scan_opportunities collects, called by run_polling_mode after
\* its own refresh has returned
scan_collect_pairs ==
    /\ phase = "running"
    /\ ~config.use_websocket
    /\ ref_pc = "idle"
    /\ ReadCache

RegNext ==
    \/ BeginRefresh
    \/ FetchErr
    \/ FetchOk
    \/ InsertStep
    \/ RefreshReturn
    \/ get_watched_token_ids
    \/ scan_collect_pairs

SpecRegistry == RegInit /\ [][RegNext]_vars

-----------------------------------------------------------------------------
(* Claims about the registry (checked under SpecRegistry) *)

\* A market with exactly two tokens, one labelled yes and the other no
\* (compared case-insensitively), whose token ids are those of pair
PairOfYesNoMarket(market, pair) ==
    /\ market.condition_id = pair.condition_id
    /\ Len(market.tokens) = 2
    /\ \E i \in 1..2 :
          /\ to_lowercase(market.tokens[i].outcome) = Str_yes
          /\ to_lowercase(market.tokens[3 - i].outcome) = Str_no
          /\ pair.yes_token_id = market.tokens[i].token_id
          /\ pair.no_token_id = market.tokens[3 - i].token_id

\* C6: every cached pair was produced from a market with exactly two outcome
\* tokens, one labelled yes and one labelled no (case-insensitively); markets
\* with 0, 1 or 3+ tokens, two yes, two no or neither label are never cached.
C6_OnlyYesNoMarketsCached ==
    /\ DOMAIN cache_origin = DOMAIN market_cache
    /\ \A cid \in DOMAIN market_cache :
          PairOfYesNoMarket(cache_origin[cid], market_cache[cid])
    /\ \A i \in 1..ref_i :
          ~(\E p \in {market_cache[c] : c \in DOMAIN market_cache} :
                PairOfYesNoMarket(ref_markets[i], p))
             => ref_markets[i].condition_id \notin DOMAIN market_cache

\* C6 witness: a refresh has visited a three-token market that carries a yes
\* and a no label and a qualifying market; only the latter is cached
C6_Witness ==
    /\ ref_pc = "idle"
    /\ ref_fetch = "ok"
    /\ ref_i = 2
    /\ Len(ref_markets[1].tokens) = 3
    /\ ref_markets[2].condition_id = "m2"
    /\ DOMAIN market_cache = {"m2"}
    /\ market_cache["m2"].yes_token_id = "t4"
    /\ market_cache["m2"].no_token_id = "t3"

\* C7 as stated: after a successful refresh the cache holds exactly the pairs
\* extracted from that refresh's listing.
C7_LastRefreshWins ==
    (ref_pc = "idle" /\ ref_fetch = "ok") =>
        market_cache = refresh_inserts(<<>>, ref_markets, 1)

\* C8 as stated: a read of the registry returns either what was cached before
\* the refresh it runs concurrently with, or what is cached after it.
C8_NoTornRead == snapshot = read_pre \/ snapshot = read_post

\* C9: when the market-list fetch of a refresh fails, the cache is as it was
\* when the refresh was called, the caller got the error, and the process is
\* still running unless the refresh was main()'s initial one.
C9_FailedRefreshKeepsCache ==
    (ref_pc = "idle" /\ ref_fetch = "err") =>
        /\ market_cache = ref_pre
        /\ ref_result = Some(Err)
        /\ (ref_caller = "loop" => phase = "running")

\* C9 witness: a refresh failed while pairs were cached and the process runs
C9_Witness ==
    /\ ref_pc = "idle"
    /\ ref_fetch = "err"
    /\ ref_caller = "loop"
    /\ phase = "running"
    /\ DOMAIN market_cache = {"m1", "m2"}
    /\ ref_result = Some(Err)

-----------------------------------------------------------------------------
(* client.rs / scanner.rs: the batched scan *)

\* What the fetch of one token's order book can end with: an error (None), or
\* a book with this ask side
PollAskSides ==
    { << >>,
      << [price |-> 400, size |-> 100000] >>,
      << [price |-> 550, size |-> 500] >> }

FetchOutcomes == {None} \cup {Some(asks) : asks \in PollAskSides}

\* The pairs of the cache in the orders a DashMap iteration can yield them
PairOrders(cache) ==
    { ps \in [1..Cardinality(DOMAIN cache) -> {cache[c] : c \in DOMAIN cache}] :
        \A i, j \in DOMAIN ps : i # j => ps[i] # ps[j] }

\* all_token_ids of scan_opportunities, from pairs[i] on
RECURSIVE all_token_ids(_, _)
all_token_ids(pairs, i) ==
    IF i > Len(pairs) THEN <<>>
    ELSE <<pairs[i].yes_token_id, pairs[i].no_token_id>>
            \o all_token_ids(pairs, i + 1)

\* The loop of get_order_books over the results of the individual fetches,
\* from token_ids[i] on: a fetched book is pushed, an error is counted
RECURSIVE collect_books(_, _, _)
collect_books(token_ids, fetched, i) ==
    IF i > Len(token_ids) THEN <<>>
    ELSE (IF IsSome(fetched[token_ids[i]])
          THEN <<OrderBook(token_ids[i], Unwrap(fetched[token_ids[i]]))>>
          ELSE <<>>) \o collect_books(token_ids, fetched, i + 1)

\* mutant of get_order_books: one failed fetch fails the whole batch
get_order_books_all_or_nothing(token_ids, fetched) ==
    IF \E i \in 1..Len(token_ids) : fetched[token_ids[i]] = None
    THEN [ok |-> FALSE, val |-> <<>>]
    ELSE [ok |-> TRUE, val |-> collect_books(token_ids, fetched, 1)]

\* ClobClient::get_order_books: Ok(books), whatever fetches failed
get_order_books(token_ids, fetched) ==
    IF Len(token_ids) = 0 THEN [ok |-> TRUE, val |-> <<>>]
    ELSE [ok |-> TRUE, val |-> collect_books(token_ids, fetched, 1)]

\* book_map of scan_opportunities: asset_id -> book, a later book of the same
\* asset replacing an earlier one
RECURSIVE book_map_of(_, _, _)
book_map_of(map, books, i) ==
    IF i > Len(books) THEN map
    ELSE book_map_of(MapInsert(map, books[i].asset_id, books[i]), books, i + 1)

\* The "Check each market pair" loop of scan_opportunities, from pairs[i] on
RECURSIVE check_pairs(_, _, _, _, _)
check_pairs(cfg, pairs, book_map, now, i) ==
    IF i > Len(pairs) THEN <<>>
    ELSE check_arbitrage(cfg, pairs[i], book_map, now)
            \o check_pairs(cfg, pairs, book_map, now, i + 1)

\* Whether the "Check each market pair" loop panics at some pair
pairs_panic(pairs, book_map) ==
    \E i \in 1..Len(pairs) : check_arbitrage_panics(pairs[i], book_map)

\* ArbitrageScanner::scan_opportunities on pairs, fetched giving how the
\* fetch of each token's book ended: the Result and the book_map it built,
\* or panicked when the call unwinds instead of returning
scan_opportunities(cfg, pairs, fetched, now) ==
    IF Len(pairs) = 0
    THEN [ok |-> TRUE, val |-> <<>>, book_map |-> <<>>, panicked |-> FALSE]
    ELSE
      LET order_books == get_order_books(all_token_ids(pairs, 1), fetched)
          book_map    == book_map_of(<<>>, order_books.val, 1)
      IN  IF ~order_books.ok
          THEN [ok |-> FALSE, val |-> <<>>, book_map |-> <<>>,
                panicked |-> FALSE]
          ELSE IF pairs_panic(pairs, book_map)
          THEN [ok |-> FALSE, val |-> <<>>, book_map |-> book_map,
                panicked |-> TRUE]
          ELSE [ok |-> TRUE, val |-> check_pairs(cfg, pairs, book_map, now, 1),
                book_map |-> book_map, panicked |-> FALSE]

\* The ways the fetches of the books of pairs can end
FetchResults(pairs) ==
    [ {pairs[i].yes_token_id : i \in DOMAIN pairs} \cup
      {pairs[i].no_token_id : i \in DOMAIN pairs} -> FetchOutcomes ]

\* The market of MarketChoices with this condition_id
Mkt(cid) == CHOOSE m \in MarketChoices : m.condition_id = cid

-----------------------------------------------------------------------------
(* Scan harness: one call of scan_opportunities on a cache of one or two   *)
(* pairs, its locals kept in view                                          *)

\* Caches a refresh can have left
ScanCaches ==
    { refresh_inserts(<<>>, l, 1) :
        l \in { <<Mkt("m1")>>, <<Mkt("m2")>>, <<Mkt("m1"), Mkt("m2")>>,
                <<Mkt("m1"), EuroMarket>> } }

ScanInit ==
    /\ config = [DefaultConfig EXCEPT !.use_websocket = FALSE]
    /\ DetIdle
    /\ WsIdle
    /\ FeedIdle
    /\ RegIdle
    /\ poll_pc = "scan"
    /\ refresh_counter = 1
    /\ ticks_left = 0
    /\ stats = [ opportunities_found |-> 0, trades_executed |-> 0,
                 trades_successful |-> 0, total_profit |-> 0,
                 scans_completed |-> 0 ]
    /\ scan_pairs \in UNION { PairOrders(cache) : cache \in ScanCaches }
    /\ scan_books = <<>>
    /\ scan_result = None
    /\ scan_opps = <<>>
    /\ opp_i = 0
    /\ exec = ExecIdle
    /\ stats_lock = "free"
    /\ stats_seen = None

\* scan_opportunities has collected pairs and awaits get_order_books
ScanStart ==
    /\ poll_pc = "scan"
    /\ poll_pc' = "fetching_books"
    /\ UNCHANGED <<config, lockVars, feedVars, wsVars, detVars, regVars, refresh_counter, ticks_left, stats,
                   scan_pairs, scan_books, scan_result, scan_opps, opp_i, exec>>

\* get_order_books returns: every fetch has ended, with a book or an error;
\* the books are mapped by asset, every pair is checked, the scan returns
\* (or the check of a pair panics and the call never returns)
BooksFetched ==
    /\ poll_pc = "fetching_books"
    /\ \E fetched \in FetchResults(scan_pairs) :
          LET scan == scan_opportunities(config, scan_pairs, fetched,
                                         refresh_counter)
          IN  /\ scan_books' = scan.book_map
              /\ scan_opps' = scan.val
              /\ IF scan.panicked
                 THEN /\ scan_result' = None
                      /\ poll_pc' = "panicked"
                 ELSE /\ scan_result' =
                            Some(IF scan.ok THEN Ok(Len(scan.val)) ELSE Err)
                      /\ poll_pc' = "scanned"
    /\ UNCHANGED <<config, lockVars, feedVars, wsVars, detVars, regVars, refresh_counter, ticks_left, stats,
                   scan_pairs, opp_i, exec>>

ScanNext == ScanStart \/ BooksFetched

SpecScan == ScanInit /\ [][ScanNext]_vars

-----------------------------------------------------------------------------
(* Claims about the batched scan *)

\* The book of token is missing from the fetched set, or has no ask
NoAskFor(token) ==
    \/ token \notin DOMAIN scan_books
    \/ Len(scan_books[token].asks) = 0

\* The returned opportunities that name pair's market
OppsOf(pair) ==
    { i \in DOMAIN scan_opps : scan_opps[i].market_id = pair.condition_id }

\* C5: when the books of a batch scan have been fetched, the scan returns,
\* and it returns Ok; a pair with a token whose book is missing from the
\* fetched set or has no ask has yielded no opportunity; and every other
\* pair has been evaluated: it has yielded an opportunity exactly when its
\* two first asks pass the profitability test.
C5_MissingBooksSkipped ==
    poll_pc \in {"scanned", "panicked"} =>
        /\ poll_pc = "scanned"
        /\ IsSome(scan_result)
        /\ Unwrap(scan_result) = Ok(Len(scan_opps))
        /\ \A k \in DOMAIN scan_pairs :
              LET pair == scan_pairs[k] IN
              IF NoAskFor(pair.yes_token_id) \/ NoAskFor(pair.no_token_id)
              THEN OppsOf(pair) = {}
              ELSE LET combined ==
                         scan_books[pair.yes_token_id].asks[1].price
                           + scan_books[pair.no_token_id].asks[1].price
                   IN  (OppsOf(pair) # {})
                          <=> is_profitable(config, combined, ONE - combined)

\* C5 witness: a scan of two pairs has returned Ok; the first pair, skipped
\* for the missing book of its YES token, the second evaluated and signaled
C5_Witness ==
    /\ poll_pc = "scanned"
    /\ Len(scan_pairs) = 2
    /\ scan_pairs[1].yes_token_id \notin DOMAIN scan_books
    /\ scan_pairs[1].no_token_id \in DOMAIN scan_books
    /\ OppsOf(scan_pairs[1]) = {}
    /\ OppsOf(scan_pairs[2]) # {}
    /\ scan_result = Some(Ok(1))

-----------------------------------------------------------------------------
(* main.rs: run_polling_mode, handle_opportunity; client.rs:               *)
(* execute_arbitrage.  Polling mode spawns no task: refresh, scan and the  *)
(* handling of each opportunity follow one another in one loop.            *)

\* refresh_counter % 100 == 0
RefreshEvery == 100

\* Listings main()'s initial refresh gets before the polling loop starts
PollInitListings ==
    { <<Mkt("m1")>>, <<Mkt("m2"), Mkt("m1")>>, <<EuroMarket>> }

\* Listings the venue returns to the refreshes of the polling loop
PollListings == { <<Mkt("m1")>>, <<Mkt("m3"), Mkt("m2")>> }

PollConfigs ==
    { [DefaultConfig EXCEPT !.use_websocket = FALSE, !.max_markets = 2,
                            !.dry_run = dry] : dry \in BOOLEAN }

\* The Market among markets a cached pair came from
OriginOf(markets, cache) ==
    [cid \in DOMAIN cache |->
        LET last == CHOOSE i \in 1..Len(markets) :
                        /\ extract_market_pair(markets[i]) = Some(cache[cid])
                        /\ \A j \in (i + 1)..Len(markets) :
                              extract_market_pair(markets[j]) # Some(cache[cid])
        IN  markets[last]]

\* How many of markets yield a pair
RECURSIVE count_pairs(_, _)
count_pairs(markets, i) ==
    IF i > Len(markets) THEN 0
    ELSE (IF IsSome(extract_market_pair(markets[i])) THEN 1 ELSE 0)
            + count_pairs(markets, i + 1)

\* The registry after main()'s initial refresh got this listing and cached
\* at least one pair
AfterInitialRefresh(listing) ==
    LET markets == Take(listing, config.max_markets)
        cache   == refresh_inserts(<<>>, markets, 1)
    IN  /\ cache # <<>>
        /\ phase = "running"
        /\ market_cache = cache
        /\ cache_origin = OriginOf(markets, cache)
        /\ ref_pc = "idle"
        /\ ref_caller = "main"
        /\ ref_markets = markets
        /\ ref_i = Len(markets)
        /\ ref_count = count_pairs(markets, 1)
        /\ ref_result = Some(Ok(count_pairs(markets, 1)))
        /\ ref_fetch = "ok"
        /\ ref_pre = <<>>
        /\ snapshot = {}
        /\ read_pre = {}
        /\ read_post = {}

\* run_polling_mode is entered, at its first tick or shortly before the tick
\* of a refresh (no opportunity was seen in the ticks before)
PollInit ==
    /\ config \in PollConfigs
    /\ DetIdle
    /\ WsIdle
    /\ FeedIdle
    /\ \E listing \in PollInitListings : AfterInitialRefresh(listing)
    /\ poll_pc = "tick"
    /\ refresh_counter = RefreshEvery - 2
    /\ ticks_left = MaxTicks
    /\ stats = [ opportunities_found |-> 0, trades_executed |-> 0,
                 trades_successful |-> 0, total_profit |-> 0,
                 scans_completed |-> refresh_counter ]
    /\ scan_pairs = <<>>
    /\ scan_books = <<>>
    /\ scan_result = None
    /\ scan_opps = <<>>
    /\ opp_i = 0
    /\ exec = ExecIdle
    /\ stats_lock = "free"
    /\ stats_seen = None

\* A whole call of refresh_markets by the polling loop: outcome is None when
\* the market-list fetch fails, Some(listing) when it returns listing
RefreshWhole(outcome) ==
    /\ ref_caller' = "loop"
    /\ ref_pre' = market_cache
    /\ ref_pc' = "idle"
    /\ IF outcome = None
       THEN /\ ref_fetch' = "err"
            /\ ref_result' = Some(Err)
            /\ ref_markets' = <<>>
            /\ ref_i' = 0
            /\ ref_count' = 0
            /\ UNCHANGED <<market_cache, cache_origin>>
       ELSE LET markets == Take(Unwrap(outcome), config.max_markets)
                fresh   == refresh_inserts(<<>>, markets, 1)
            IN  /\ ref_fetch' = "ok"
                /\ ref_markets' = markets
                /\ ref_i' = Len(markets)
                /\ ref_count' = count_pairs(markets, 1)
                /\ ref_result' = Some(Ok(count_pairs(markets, 1)))
                /\ market_cache' = refresh_inserts(market_cache, markets, 1)
                /\ cache_origin' =
                      [cid \in DOMAIN cache_origin \cup DOMAIN fresh |->
                          IF cid \in DOMAIN fresh
                          THEN OriginOf(markets, fresh)[cid]
                          ELSE cache_origin[cid]]
    /\ UNCHANGED <<phase, snapshot, read_pre, read_post>>

\* refresh_counter % 50 == 0
StatsEvery == 50

\* mutant of acquire_write: the counters are written without the guard
acquire_write_skipped(lock) == lock

\* `stats.write().await`, returning once no guard is alive: the write guard
\* is alive from then on
acquire_write(lock) == "write"

\* The drop of a guard
release(lock) == "free"

\* What a statistics print shows: the counters it read, and whether an
\* execute_arbitrage call was then awaited (its outcome not yet applied)
observe(counters, pc) ==
    [shown |-> counters, mid_trade |-> pc \in {"signing", "posting"}]

\* One turn of the loop up to its for loop: count the tick, refresh on every
\* 100th, then the whole of scan_opportunities; Ok(opportunities) counts a
\* scan and takes the write guard, Err is logged; a panic of the scan
\* unwinds out of the loop and of main
Tick ==
    /\ poll_pc = "tick"
    /\ ticks_left > 0
    /\ stats_lock = "free"
    /\ ticks_left' = ticks_left - 1
    /\ refresh_counter' = refresh_counter + 1
    /\ IF (refresh_counter + 1) % RefreshEvery = 0
       THEN \E outcome \in {None} \cup {Some(l) : l \in PollListings} :
                RefreshWhole(outcome)
       ELSE UNCHANGED regVars
    /\ \E pairs \in PairOrders(market_cache') :
       \E fetched \in FetchResults(pairs) :
       \E scan \in {scan_opportunities(config, pairs, fetched,
                                       refresh_counter + 1)} :
              /\ scan_result' = IF scan.panicked THEN None
                               ELSE Some(IF scan.ok THEN Ok(Len(scan.val))
                                         ELSE Err)
              /\ scan_opps' = scan.val
              /\ stats' = IF scan.ok
                          THEN [stats EXCEPT !.scans_completed = @ + 1]
                          ELSE stats
              /\ poll_pc' = IF scan.panicked THEN "panicked" ELSE "handling"
              /\ stats_lock' = IF scan.ok THEN acquire_write(stats_lock)
                               ELSE stats_lock
    /\ opp_i' = 0
    /\ UNCHANGED <<config, stats_seen, feedVars, wsVars, detVars, scan_pairs,
                   scan_books, exec>>

\* ArbitrageOpportunity::expected_profit: the product of two counts of
\* thousandths is a count of millionths (total_profit is kept in millionths)
\* mutant of expected_profit: the size is left out
expected_profit_per_share(opp, size) == opp.profit_per_share

expected_profit(opp, size) == opp.profit_per_share * size

\* mutant of trade_size: the configured size, whatever the liquidity
trade_size_requested(cfg, opp) == cfg.order_size

\* handle_opportunity: `config.order_size.min(opp.max_size)`
trade_size(cfg, opp) == DecMin(cfg.order_size, opp.max_size)

\* mutant of size_too_small: only a size of zero is refused
size_too_small_zero_only(size) == size <= 0

\* handle_opportunity: `if size < Decimal::ONE { return; }`
size_too_small(size) == size < ONE

\* mutant of dry_run_gate: the gate is never taken
dry_run_gate_open(cfg) == FALSE

\* handle_opportunity: `if config.dry_run { return; }`
dry_run_gate(cfg) == cfg.dry_run

\* What post_order can answer for one leg: a transport error, an empty list
\* of responses, or one PostOrderResponse
PostResponses ==
    { [kind |-> "error", success |-> FALSE, error_msg |-> None],
      [kind |-> "empty", success |-> FALSE, error_msg |-> None],
      [kind |-> "response", success |-> TRUE, error_msg |-> None],
      [kind |-> "response", success |-> FALSE, error_msg |-> Some("rejected")],
      [kind |-> "response", success |-> FALSE, error_msg |-> None] }

\* ClobClient::convert_response
convert_response(response) ==
    IF response.kind = "response"
    THEN [success |-> response.success, error_msg |-> response.error_msg]
    ELSE IF response.kind = "empty"
    THEN [success |-> FALSE, error_msg |-> Some("Empty response from server")]
    ELSE [success |-> FALSE, error_msg |-> Some("transport error")]

\* mutant of both_answered: one answer is enough
both_answered_either(post) == post.yes # PostPending \/ post.no # PostPending

\* The second tokio::join! of execute_arbitrage is ready: both post_order
\* futures have completed
both_answered(post) == post.yes # PostPending /\ post.no # PostPending

\* mutant of join_results: the results in the order the legs completed
join_results_by_completion(post, first) ==
    IF first = Some("no")
    THEN <<convert_response(post.no), convert_response(post.yes)>>
    ELSE <<convert_response(post.yes), convert_response(post.no)>>

\* (yes_result, no_result) of execute_arbitrage: join! yields its futures'
\* outputs by position, whichever leg (first) completed first
join_results(post, first) ==
    <<convert_response(post.yes), convert_response(post.no)>>

\* mutant of is_partial: any failure counts as a partial execution
is_partial_any_failure(yes_result, no_result) ==
    ~(yes_result.success /\ no_result.success)

\* execute_arbitrage: `if yes_result.success != no_result.success`
is_partial(yes_result, no_result) == yes_result.success # no_result.success

\* mutant of handle_partial_execution: the alert names the failed side
handle_partial_execution_names_failed(yes_result, no_result) ==
    [ unhedged  |-> IF yes_result.success THEN "NO" ELSE "YES",
      submitted |-> 0 ]

\* mutant of handle_partial_execution: the failed order is sent again
handle_partial_execution_retries(yes_result, no_result) ==
    [ unhedged  |-> IF yes_result.success THEN "YES" ELSE "NO",
      submitted |-> 1 ]

\* ClobClient::handle_partial_execution: the side its ALERT line calls
\* unhedged, and how many orders it submits
handle_partial_execution(yes_result, no_result) ==
    LET failed_side == IF yes_result.success THEN "NO" ELSE "YES"
    IN  [ unhedged  |-> IF failed_side = "NO" THEN "YES" ELSE "NO",
          submitted |-> 0 ]

\* The opportunity the for loop of run_polling_mode is at
CurrentOpp == scan_opps[opp_i + 1]

\* mutant of await_execution: the call is spawned and the for loop goes on
\* to the next opportunity
await_execution_spawned(i) == [pc |-> "handling", opp_i |-> i + 1]

\* `execute_arbitrage(opp, size).await` in handle_opportunity, itself
\* awaited by the for loop: the loop stays at this opportunity until the
\* call has returned
await_execution(i) == [pc |-> "signing", opp_i |-> i]

\* One turn of `for opp in opportunities`: count it, then handle_opportunity
\* up to its return or to the first await of execute_arbitrage (both
\* build_and_sign_order calls issued by tokio::join!)
HandleOpportunity ==
    /\ poll_pc = "handling"
    /\ opp_i < Len(scan_opps)
    /\ LET opp  == CurrentOpp
           size == trade_size(config, opp)
       IN  IF dry_run_gate(config) \/ size_too_small(size)
           THEN /\ stats' = [stats EXCEPT !.opportunities_found = @ + 1]
                /\ opp_i' = opp_i + 1
                /\ UNCHANGED <<poll_pc, exec>>
           ELSE /\ stats' = [stats EXCEPT !.opportunities_found = @ + 1,
                                          !.trades_executed = @ + 1]
                /\ exec' = [exec EXCEPT
                      !.calls = @ + 1,
                      !.signed = @ + 2,
                      !.size = size,
                      !.orders =
                         << [token_id |-> opp.yes_token_id, side |-> "Buy",
                             amount |-> size * opp.yes_ask_price],
                            [token_id |-> opp.no_token_id, side |-> "Buy",
                             amount |-> size * opp.no_ask_price] >>,
                      !.sign = [yes |-> "pending", no |-> "pending"],
                      !.first = None,
                      !.returned = None]
                /\ poll_pc' = await_execution(opp_i).pc
                /\ opp_i' = await_execution(opp_i).opp_i
    /\ UNCHANGED <<config, lockVars, feedVars, wsVars, detVars, regVars, refresh_counter, ticks_left,
                   scan_pairs, scan_books, scan_result, scan_opps>>

\* mutant of both_signed: one signed order is enough to go on
both_signed_either(sign) == sign.yes = "ok" \/ sign.no = "ok"

\* The two `?` after the first tokio::join! of execute_arbitrage: both
\* build_and_sign_order results are Ok
both_signed(sign) == sign.yes = "ok" /\ sign.no = "ok"

\* One leg's build_and_sign_order ends, with a signed order or an error
SignLeg ==
    /\ poll_pc = "signing"
    /\ \E leg \in {"yes", "no"}, outcome \in {"ok", "err"} :
          /\ exec.sign[leg] = "pending"
          /\ exec' = [exec EXCEPT !.sign[leg] = outcome]
    /\ UNCHANGED <<config, lockVars, feedVars, wsVars, detVars, regVars, poll_pc, refresh_counter,
                   ticks_left, stats, scan_pairs, scan_books, scan_result,
                   scan_opps, opp_i>>

\* Both signings have ended: an error of either returns Err from
\* execute_arbitrage (handle_opportunity logs it); otherwise tokio::join!
\* issues both post_order calls
SignJoin ==
    /\ poll_pc = "signing"
    /\ exec.sign.yes # "pending" /\ exec.sign.no # "pending"
    /\ IF both_signed(exec.sign)
       THEN /\ exec' = [exec EXCEPT !.submitted = @ + 2,
                                    !.sign = [yes |-> "idle", no |-> "idle"],
                                    !.post = [yes |-> PostPending, no |-> PostPending]]
            /\ poll_pc' = "posting"
            /\ UNCHANGED opp_i
       ELSE /\ exec' = [exec EXCEPT !.sign = [yes |-> "idle", no |-> "idle"],
                                    !.orders = <<>>,
                                    !.returned = Some(Err)]
            /\ poll_pc' = "handling"
            /\ opp_i' = opp_i + 1
    /\ UNCHANGED <<config, lockVars, feedVars, wsVars, detVars, regVars, refresh_counter, ticks_left, stats,
                   scan_pairs, scan_books, scan_result, scan_opps>>

\* The venue answers one leg's post_order
PostLeg ==
    /\ poll_pc = "posting"
    /\ \E leg \in {"yes", "no"}, response \in PostResponses :
          /\ exec.post[leg] = PostPending
          /\ exec' = [exec EXCEPT
                !.post[leg] = response,
                !.first = IF @ = None THEN Some(leg) ELSE @]
    /\ UNCHANGED <<config, lockVars, feedVars, wsVars, detVars, regVars, poll_pc, refresh_counter,
                   ticks_left, stats, scan_pairs, scan_books, scan_result,
                   scan_opps, opp_i>>

\* mutant of apply_outcome: the profit is booked whatever the outcome
apply_outcome_books_always(counters, yes_resp, no_resp, profit) ==
    [counters EXCEPT
       !.trades_successful =
           IF yes_resp.success /\ no_resp.success THEN @ + 1 ELSE @,
       !.total_profit = @ + profit]

\* The Ok arm of handle_opportunity's match: both legs succeeded, or not
apply_outcome(counters, yes_resp, no_resp, profit) ==
    IF yes_resp.success /\ no_resp.success
    THEN [counters EXCEPT !.trades_successful = @ + 1,
                          !.total_profit = @ + profit]
    ELSE counters

\* Both answers are in: convert them, raise the partial-execution alert when
\* exactly one leg succeeded, return Ok((yes_result, no_result)); then
\* handle_opportunity updates the statistics
PostJoin ==
    /\ poll_pc = "posting"
    /\ both_answered(exec.post)
    /\ LET results    == join_results(exec.post, exec.first)
           yes_result == results[1]
           no_result  == results[2]
           partial    == is_partial(yes_result, no_result)
           recovery   == handle_partial_execution(yes_result, no_result)
       IN  /\ exec' = [exec EXCEPT
                 !.alerts = IF partial THEN @ + 1 ELSE @,
                 !.unhedged = IF partial THEN Some(recovery.unhedged)
                              ELSE None,
                 !.submitted = IF partial THEN @ + recovery.submitted ELSE @,
                 !.post = [yes |-> PostIdle, no |-> PostIdle],
                 !.returned = Some([ok |-> TRUE,
                                    val |-> <<yes_result, no_result>>])]
           /\ stats' = apply_outcome(stats, yes_result, no_result,
                                     expected_profit(CurrentOpp, exec.size))
    /\ poll_pc' = "handling"
    /\ opp_i' = opp_i + 1
    /\ UNCHANGED <<config, lockVars, feedVars, wsVars, detVars, regVars, refresh_counter, ticks_left,
                   scan_pairs, scan_books, scan_result, scan_opps>>

\* The for loop is over, its locals and the write guard of its arm are
\* dropped; every 50th turn then reads and prints the statistics; the loop
\* sleeps until the next tick
LoopEnd ==
    /\ poll_pc = "handling"
    /\ opp_i = Len(scan_opps)
    /\ poll_pc' = "tick"
    /\ exec' = [exec EXCEPT !.size = 0, !.orders = <<>>, !.returned = None,
                             !.unhedged = None, !.first = None]
    /\ stats_lock' = release(stats_lock)
    /\ stats_seen' = IF refresh_counter % StatsEvery = 0
                     THEN Some(observe(stats, poll_pc'))
                     ELSE stats_seen
    /\ UNCHANGED <<config, feedVars, wsVars, detVars, regVars, refresh_counter, ticks_left, stats,
                   scan_pairs, scan_books, scan_result, scan_opps, opp_i>>

PollNext ==
    \/ Tick
    \/ HandleOpportunity
    \/ SignLeg
    \/ SignJoin
    \/ PostLeg
    \/ PostJoin
    \/ LoopEnd

SpecPolling == PollInit /\ [][PollNext]_vars

-----------------------------------------------------------------------------
(* Execution harness: the for loop of one tick of run_polling_mode, live,  *)
(* over the opportunities a scan of two cached pairs can return            *)

\* Ask sides of the books that scan fetched: deep, of 5 shares, of half a
\* share
ExecAskSides ==
    { << [price |-> 400, size |-> 100000] >>,
      << [price |-> 400, size |-> 5000] >>,
      << [price |-> 550, size |-> 500] >> }

\* What the scan before the for loop can have returned
ExecScans ==
    UNION { { scan_opportunities(config, pairs, fetched, 1).val :
                fetched \in [ {pairs[i].yes_token_id : i \in DOMAIN pairs} \cup
                              {pairs[i].no_token_id : i \in DOMAIN pairs}
                                -> {Some(asks) : asks \in ExecAskSides} ] } :
            pairs \in PairOrders(refresh_inserts(<<>>,
                                    <<Mkt("m2"), Mkt("m1")>>, 1)) }

\* The first tick of a live run has scanned and enters its for loop
ExecInit ==
    /\ config = [DefaultConfig EXCEPT !.use_websocket = FALSE,
                                      !.max_markets = 2, !.dry_run = FALSE]
    /\ DetIdle
    /\ WsIdle
    /\ FeedIdle
    /\ AfterInitialRefresh(<<Mkt("m2"), Mkt("m1")>>)
    /\ poll_pc = "handling"
    /\ refresh_counter = 1
    /\ ticks_left = 0
    /\ stats = [ opportunities_found |-> 0, trades_executed |-> 0,
                 trades_successful |-> 0, total_profit |-> 0,
                 scans_completed |-> 1 ]
    /\ scan_pairs = <<>>
    /\ scan_books = <<>>
    /\ scan_opps \in ExecScans
    /\ scan_result = Some(Ok(Len(scan_opps)))
    /\ opp_i = 0
    /\ exec = ExecIdle
    /\ stats_lock = "write"
    /\ stats_seen = None

ExecNext ==
    \/ HandleOpportunity
    \/ SignLeg
    \/ SignJoin
    \/ PostLeg
    \/ PostJoin
    \/ LoopEnd

SpecExec == ExecInit /\ [][ExecNext]_vars

-----------------------------------------------------------------------------
(* Claims about the polling loop *)

\* Nothing was ever signed, submitted or executed
NothingExecuted ==
    /\ exec.calls = 0
    /\ exec.signed = 0
    /\ exec.submitted = 0
    /\ poll_pc \notin {"signing", "posting"}
    /\ stats.trades_executed = 0
    /\ stats.trades_successful = 0
    /\ stats.total_profit = 0

\* One turn of the for loop of run_polling_mode has handled an opportunity
HandledOne == poll_pc = "handling" /\ opp_i' = opp_i + 1

\* C10: with dry_run set, in every run no order is signed or submitted,
\* execute_arbitrage is never called, trades_executed stays 0, and handling an
\* opportunity adds one to opportunities_found and changes no other counter.
C10_DryRunExecutesNothing ==
    /\ [](config.dry_run => NothingExecuted)
    /\ [][ (config.dry_run /\ HandledOne) =>
              /\ stats' = [stats EXCEPT !.opportunities_found = @ + 1]
              /\ exec' = exec
              /\ poll_pc' = "handling" ]_vars

\* C10 witness: a dry run has handled both opportunities of a scan
C10_Witness ==
    /\ config.dry_run
    /\ poll_pc = "handling"
    /\ Len(scan_opps) = 2
    /\ opp_i = 2
    /\ stats.opportunities_found >= 2

-----------------------------------------------------------------------------
(* Claims about a dual-leg execution *)

\* The step on which execute_arbitrage returns Ok((yes_result, no_result))
\* and handle_opportunity has used it
ExecutionReturns == poll_pc = "posting" /\ poll_pc' = "handling"

\* How the venue answered each leg's post_order, before the step
YesFilled == exec.post.yes.kind = "response" /\ exec.post.yes.success

NoFilled == exec.post.no.kind = "response" /\ exec.post.no.success

\* The statistics a trade outcome can move are as they were
OutcomeStatsUnchanged ==
    /\ stats'.trades_successful = stats.trades_successful
    /\ stats'.total_profit = stats.total_profit

\* The pair execute_arbitrage last returned
Returned == Unwrap(exec.returned).val

ReturnedOk == IsSome(exec.returned) /\ Unwrap(exec.returned) # Err

\* C11: an execution both of whose legs succeed adds exactly 1 to
\* trades_successful and exactly profit_per_share x size to total_profit,
\* size being the size execute_arbitrage was called with, and raises no
\* partial-execution alert.
C11_FullSuccessCounted ==
    [][ (ExecutionReturns /\ YesFilled /\ NoFilled) =>
           /\ stats'.trades_successful = stats.trades_successful + 1
           /\ stats'.total_profit =
                 stats.total_profit + CurrentOpp.profit_per_share * exec.size
           /\ exec'.alerts = exec.alerts
           /\ exec'.unhedged = None ]_vars

\* C11 witness: both legs of the first trade filled and it was counted
C11_Witness ==
    /\ poll_pc = "handling"
    /\ opp_i = 1
    /\ ReturnedOk
    /\ Returned[1].success /\ Returned[2].success
    /\ stats.trades_successful = 1
    /\ stats.total_profit = scan_opps[1].profit_per_share * exec.size
    /\ stats.total_profit > 0
    /\ exec.alerts = 0

\* C12: an execution exactly one of whose legs succeeds raises one
\* partial-execution alert, which names as unhedged the leg that filled (YES
\* when the NO order failed, NO when the YES order failed), and leaves
\* trades_successful and total_profit as they were.
C12_PartialAlertNamesFilledLeg ==
    [][ (ExecutionReturns /\ (YesFilled # NoFilled)) =>
           /\ exec'.alerts = exec.alerts + 1
           /\ exec'.unhedged = Some(IF YesFilled THEN "YES" ELSE "NO")
           /\ OutcomeStatsUnchanged ]_vars

\* C12 witness: the YES order failed, the NO order filled, the alert names NO
C12_Witness ==
    /\ poll_pc = "handling"
    /\ ReturnedOk
    /\ ~Returned[1].success /\ Returned[2].success
    /\ exec.unhedged = Some("NO")
    /\ exec.alerts = 1
    /\ stats.trades_executed = 1
    /\ stats.trades_successful = 0

\* C13: an execution both of whose legs fail raises no partial-execution
\* alert, leaves trades_successful and total_profit as they were, and the
\* for loop goes on: it stands at the next opportunity, or at its end, from
\* where the next tick follows.
C13_FullFailureContinues ==
    [][ (ExecutionReturns /\ ~YesFilled /\ ~NoFilled) =>
           /\ exec'.alerts = exec.alerts
           /\ exec'.unhedged = None
           /\ OutcomeStatsUnchanged
           /\ poll_pc' = "handling"
           /\ opp_i' = opp_i + 1
           /\ opp_i' <= Len(scan_opps) ]_vars

\* C13 witness: both orders of the first trade failed and the second
\* opportunity has been taken up after it
C13_Witness ==
    /\ poll_pc = "signing"
    /\ opp_i = 1
    /\ stats.trades_executed = 2
    /\ stats.trades_successful = 0
    /\ exec.alerts = 0
    /\ exec.submitted = 2

\* An execute_arbitrage call is in progress
Executing == poll_pc \in {"signing", "posting"}

\* min(order_size, max_size) of the opportunity the for loop is at
MinSize ==
    IF config.order_size <= CurrentOpp.max_size
    THEN config.order_size ELSE CurrentOpp.max_size

C15_SizeAndAmounts ==
    Executing =>
        /\ exec.size = MinSize
        /\ exec.orders =
              << [token_id |-> CurrentOpp.yes_token_id, side |-> "Buy",
                  amount |-> MinSize * CurrentOpp.yes_ask_price],
                 [token_id |-> CurrentOpp.no_token_id, side |-> "Buy",
                  amount |-> MinSize * CurrentOpp.no_ask_price] >>

\* C15 witness: a trade is under way whose size is the opportunity's
\* max_size, smaller than order_size
C15_Witness ==
    /\ poll_pc = "posting"
    /\ CurrentOpp.max_size < config.order_size
    /\ exec.size = CurrentOpp.max_size
    /\ exec.orders[1].amount = CurrentOpp.max_size * CurrentOpp.yes_ask_price

\* C16: execute_arbitrage never runs with a size below 1: an opportunity
\* whose min(order_size, max_size) is below 1 is skipped, nothing is signed or
\* submitted for it and trades_executed stays as it was.
C16_SmallSizeSkipped ==
    /\ [](Executing => exec.size >= ONE)
    /\ [][ (poll_pc = "handling" /\ opp_i < Len(scan_opps)
              /\ MinSize < ONE) =>
              /\ exec' = exec
              /\ stats'.trades_executed = stats.trades_executed
              /\ poll_pc' = "handling" ]_vars

\* C16 witness: the only opportunity of a live tick offered half a share and
\* was passed over
C16_Witness ==
    /\ ~config.dry_run
    /\ poll_pc = "handling"
    /\ opp_i = 1
    /\ scan_opps[1].max_size < ONE
    /\ stats.opportunities_found = 1
    /\ stats.trades_executed = 0
    /\ exec.signed = 0

\* C17: both post_order calls are issued together, neither waits for the
\* other's answer, and whichever leg is answered first execute_arbitrage
\* returns the yes leg's result first and the no leg's second, hence the
\* same classification.
C17_OrderIndependent ==
    /\ []((exec.post.yes = PostIdle) <=> (exec.post.no = PostIdle))
    /\ [](poll_pc = "posting" => exec.post.yes # PostIdle)
    /\ [][ ExecutionReturns =>
              /\ IsSome(exec'.returned)
              /\ Unwrap(exec'.returned) # Err
              /\ Unwrap(exec'.returned).val =
                    << convert_response(exec.post.yes),
                       convert_response(exec.post.no) >> ]_vars

\* C17 witness: the no leg was answered first and failed, the yes leg filled,
\* and the pair returned has the yes success first
C17_Witness ==
    /\ poll_pc = "handling"
    /\ exec.first = Some("no")
    /\ ReturnedOk
    /\ Returned[1].success /\ ~Returned[2].success
    /\ exec.unhedged = Some("YES")

\* C18: once both legs are submitted, execute_arbitrage returns, and the
\* statistics move, only when both answers are in.
C18_WaitsForBothLegs ==
    /\ []((poll_pc = "posting"
             /\ (exec.post.yes = PostPending \/ exec.post.no = PostPending))
          => exec.returned = None)
    /\ [][ (poll_pc = "posting"
              /\ (exec'.returned # exec.returned \/ stats' # stats
                    \/ poll_pc' # "posting")) =>
              /\ exec.post.yes # PostPending
              /\ exec.post.no # PostPending ]_vars

\* C18 witness: the yes leg has filled, the no leg is in flight, nothing has
\* been returned or counted
C18_Witness ==
    /\ poll_pc = "posting"
    /\ exec.post.yes.success
    /\ exec.post.no = PostPending
    /\ exec.returned = None
    /\ stats.trades_successful = 0

\* C19: whenever execute_arbitrage has returned after submitting, it has
\* returned both legs' results, and every leg that did not fill has
\* success = false and an error message.
C19_FailureHasMessage ==
    (poll_pc = "handling" /\ IsSome(exec.returned) /\ exec.submitted > 0
        /\ exec.orders # <<>>) =>
        /\ ReturnedOk
        /\ Len(Returned) = 2
        /\ \A k \in 1..2 :
              ~Returned[k].success => IsSome(Returned[k].error_msg)

-----------------------------------------------------------------------------
(* main.rs: the reconnection loop of run_websocket_mode *)

\* `let mut reconnect_delay = Duration::from_secs(1)`, and the value the
\* loop resets it to on a successful connection
InitialDelay == 1

\* `let max_reconnect_delay = Duration::from_secs(60)`
MaxReconnectDelay == 60

\* mutant of next_delay: doubling without the cap
next_delay_uncapped(delay) == delay * 2

\* `reconnect_delay = (reconnect_delay * 2).min(max_reconnect_delay)`
next_delay(delay) == DecMin(delay * 2, MaxReconnectDelay)

\* run_websocket_mode is entered after an initial refresh that cached a pair
WsInit ==
    /\ config = DefaultConfig
    /\ DetIdle
    /\ PollIdle
    /\ AfterInitialRefresh(<<Mkt("m1")>>)
    /\ ws_pc = "connecting"
    /\ reconnect_delay = InitialDelay
    /\ ws_attempts_left = MaxAttempts
    /\ ws_connects = 0
    /\ ws_waited = <<>>
    /\ FeedIdle

\* WsClient::connect(token_ids).await returns Ok: the delay is reset and the
\* updates are processed
WsConnectOk ==
    /\ ws_pc = "connecting"
    /\ ws_attempts_left > 0
    /\ ws_attempts_left' = ws_attempts_left - 1
    /\ reconnect_delay' = InitialDelay
    /\ ws_connects' = ws_connects + 1
    /\ ws_waited' = <<>>
    /\ ws_pc' = "streaming"
    /\ UNCHANGED <<config, lockVars, feedVars, detVars, regVars, pollVars>>

\* WsClient::connect(token_ids).await returns Err
WsConnectErr ==
    /\ ws_pc = "connecting"
    /\ ws_attempts_left > 0
    /\ ws_attempts_left' = ws_attempts_left - 1
    /\ ws_pc' = "sleeping"
    /\ UNCHANGED <<config, lockVars, feedVars, detVars, regVars, pollVars, reconnect_delay,
                   ws_connects, ws_waited>>

\* ws_client.rx.recv() yields None: the connection has ended
WsClosed ==
    /\ ws_pc = "streaming"
    /\ ws_pc' = "sleeping"
    /\ UNCHANGED <<config, lockVars, feedVars, detVars, regVars, pollVars, reconnect_delay,
                   ws_attempts_left, ws_connects, ws_waited>>

\* tokio::time::sleep(reconnect_delay) is over; the delay is doubled up to
\* the cap and the loop tries again
WsSleepDone ==
    /\ ws_pc = "sleeping"
    /\ ws_waited' = Append(ws_waited, reconnect_delay)
    /\ reconnect_delay' = next_delay(reconnect_delay)
    /\ ws_pc' = "connecting"
    /\ UNCHANGED <<config, lockVars, feedVars, detVars, regVars, pollVars, ws_attempts_left,
                   ws_connects>>

WsNext ==
    \/ WsConnectOk
    \/ WsConnectErr
    \/ WsClosed
    \/ WsSleepDone

SpecBackoff == WsInit /\ [][WsNext]_vars

-----------------------------------------------------------------------------
(* Claims about the reconnection loop *)

\* The delays of a run of failures, as the specification lists them
BackoffSchedule == <<1, 2, 4, 8, 16, 32, 60>>

\* C20: in streaming mode the delays waited since the start or since the
\* last successful connection are 1, 2, 4, 8, 16, 32, 60, 60, 60, ...
\* seconds, and a successful connection sets the delay back to 1, so the
\* delay waited when that connection ends is 1.
C20_BackoffSchedule ==
    /\ \A k \in DOMAIN ws_waited :
          ws_waited[k] = IF k <= Len(BackoffSchedule)
                         THEN BackoffSchedule[k] ELSE 60
    /\ ws_pc = "streaming" => reconnect_delay = 1

\* C20 witness: after a connection that succeeded and ended, the waits of
\* the failures that followed have reached the cap
C20_Witness ==
    /\ ws_connects = 1
    /\ ws_waited = <<1, 2, 4, 8, 16, 32, 60, 60>>

-----------------------------------------------------------------------------
(* websocket.rs: WsClient::connect, its reader task, handle_message and    *)
(* process_event; main.rs: the consumer loop of run_websocket_mode         *)

\* One level of a book in an event
WsEntry == [price |-> 410, size |-> 1000]

\* WsEventWrapper, for asset t1
WsEvent(type, bids, asks, price) ==
    [event_type |-> type, asset_id |-> "t1", bids |-> bids, asks |-> asks,
     price |-> price]

\* Events the venue sends: books with sides absent, empty or filled, price
\* changes, last trade prices, and a type process_event does not know
WsEvents ==
    { WsEvent("book", None, None, None),
      WsEvent("book", Some(<<>>), Some(<<>>), None),
      WsEvent("book", Some(<<WsEntry>>), None, None),
      WsEvent("book", Some(<<>>), Some(<<WsEntry>>), None),
      WsEvent("price_change", None, None, Some(410)),
      WsEvent("last_trade_price", None, None, Some(410)),
      WsEvent("tick_size_change", None, None, None) }

\* What read.next() yields: a text frame that parses as an array of events,
\* as one event, or as neither; a ping; a binary frame; a close frame; a
\* read error; the end of the stream
WsFrames ==
    { [kind |-> "text", parse |-> "array", events |-> es] :
         es \in SeqsUpTo(WsEvents, MaxBatch) }
    \cup { [kind |-> "text", parse |-> "single", events |-> <<e>>] :
              e \in WsEvents }
    \cup { [kind |-> k, parse |-> "garbage", events |-> <<>>] :
              k \in {"text", "ping", "binary", "close", "error", "end"} }

\* mutant of frame_ends_reader: an undecodable text frame ends the task too
frame_ends_reader_on_garbage(frame) ==
    \/ frame.kind \in {"close", "error", "end"}
    \/ frame.kind = "text" /\ frame.parse = "garbage"

\* The arms of the reader task's match that break its loop
frame_ends_reader(frame) == frame.kind \in {"close", "error", "end"}

\* What a frame is to the reader task: a text frame that decodes to events,
\* a text frame that does not, or a frame of another kind
frame_class(frame) ==
    IF frame.kind # "text" THEN "other"
    ELSE IF frame.parse = "garbage" THEN "undecodable"
    ELSE "events"

\* WsClient::handle_message on a text frame: the events it hands to
\* process_event; any other frame hands over none
handle_message(frame) ==
    IF frame.kind = "text" /\ frame.parse \in {"array", "single"}
    THEN frame.events
    ELSE <<>>

\* `side.as_ref().and_then(|s| s.first()).map(|e| e.price)`
best_of(side) ==
    IF IsSome(side) /\ Len(Unwrap(side)) > 0
    THEN Some(Unwrap(side)[1].price)
    ELSE None

\* mutant of process_event: every book event is forwarded
process_event_every_book(event) ==
    IF event.event_type = "book"
    THEN Some([asset_id |-> event.asset_id,
               best_bid |-> best_of(event.bids),
               best_ask |-> best_of(event.asks)])
    ELSE None

\* WsClient::process_event: the PriceUpdate it sends, if any
process_event(event) ==
    IF event.event_type = "book"
    THEN LET update == [asset_id |-> event.asset_id,
                        best_bid |-> best_of(event.bids),
                        best_ask |-> best_of(event.asks)]
         IN  IF IsSome(update.best_ask) \/ IsSome(update.best_bid)
             THEN Some(update)
             ELSE None
    ELSE None

\* mutant of subscription_message: only one token is named
subscription_message_one_token(token_ids) ==
    IF token_ids = {} THEN {} ELSE {CHOOSE t \in token_ids : TRUE}

\* SubscribeMessage.assets_ids of the one message connect sends
subscription_message(token_ids) == token_ids

\* mutant of check_arb_from_cache: an ask in the index is an opportunity
check_arb_from_cache_live(price_map, cache, cfg) ==
    IF "t1" \in DOMAIN price_map /\ IsSome(price_map["t1"].best_ask)
    THEN Some([market_id |-> "m1", max_size |-> 100000])
    ELSE None

\* check_arb_from_cache: a stub
check_arb_from_cache(price_map, cache, cfg) == None

\* run_websocket_mode is entered, live, after an initial refresh that cached
\* one pair
StreamInit ==
    /\ config = [DefaultConfig EXCEPT !.dry_run = FALSE]
    /\ DetIdle
    /\ PollIdle
    /\ AfterInitialRefresh(<<Mkt("m1")>>)
    /\ ws_pc = "connecting"
    /\ reconnect_delay = InitialDelay
    /\ ws_attempts_left = StreamAttempts
    /\ ws_connects = 0
    /\ ws_waited = <<>>
    /\ feed_state = "Disconnected"
    /\ feed_token_ids = {}
    /\ feed_subs = <<>>
    /\ feed_pending = <<>>
    /\ feed_frames_left = MaxFrames
    /\ feed_log = <<>>
    /\ chan = <<>>
    /\ chan_open = FALSE
    /\ prices = <<>>

\* `if token_ids.is_empty() { bail!(..) }` at the top of WsClient::connect
connect_rejects(token_ids) == token_ids = {}

\* The top of the reconnection loop: get_watched_token_ids, then
\* WsClient::connect is called; it returns Err at once on an empty list (the
\* loop goes to its sleep), and otherwise starts connect_async
FeedConnectStart ==
    /\ ws_pc = "connecting"
    /\ feed_state = "Disconnected"
    /\ ws_attempts_left > 0
    /\ ws_attempts_left' = ws_attempts_left - 1
    /\ feed_token_ids' = TokensOf(market_cache)
    /\ feed_subs' = <<>>
    /\ IF connect_rejects(TokensOf(market_cache))
       THEN /\ feed_state' = feed_state
            /\ ws_pc' = "sleeping"
       ELSE /\ feed_state' = "Connecting"
            /\ ws_pc' = ws_pc
    /\ UNCHANGED <<config, lockVars, detVars, regVars, pollVars, reconnect_delay,
                   ws_connects, ws_waited, feed_pending, feed_frames_left, feed_log,
                   chan, chan_open, prices>>

\* connect_async fails, or the subscription message cannot be written:
\* connect returns Err and the loop goes to its sleep
FeedConnectErr ==
    /\ feed_state = "Connecting"
    /\ feed_state' = "Disconnected"
    /\ ws_pc' = "sleeping"
    /\ UNCHANGED <<config, lockVars, detVars, regVars, pollVars, reconnect_delay,
                   ws_attempts_left, ws_connects, ws_waited, feed_token_ids,
                   feed_subs, feed_pending, feed_frames_left, feed_log, chan, chan_open,
                   prices>>

\* connect_async has succeeded and the subscription message is written
FeedSubscribe ==
    /\ feed_state = "Connecting"
    /\ feed_state' = "Subscribed"
    /\ feed_subs' = Append(feed_subs, subscription_message(feed_token_ids))
    /\ UNCHANGED <<config, lockVars, detVars, regVars, pollVars, wsVars, feed_token_ids,
                   feed_pending, feed_frames_left, feed_log, chan, chan_open, prices>>

\* The channels are created, the reader task is spawned and connect returns
\* Ok: the loop resets its delay and starts receiving
FeedSpawnReader ==
    /\ feed_state = "Subscribed"
    /\ feed_state' = "Streaming"
    /\ chan' = <<>>
    /\ chan_open' = TRUE
    /\ reconnect_delay' = InitialDelay
    /\ ws_connects' = ws_connects + 1
    /\ ws_waited' = <<>>
    /\ ws_pc' = "streaming"
    /\ UNCHANGED <<config, lockVars, detVars, regVars, pollVars, ws_attempts_left,
                   feed_token_ids, feed_subs, feed_pending, feed_frames_left, feed_log,
                   prices>>

\* The reader task, at its select!, reads a frame: a frame of a breaking arm
\* ends the task, which drops the Sender; any other frame is handled, a text
\* frame by handle_message
FeedFrame ==
    /\ feed_state = "Streaming"
    /\ feed_pending = <<>>
    /\ \E frame \in WsFrames :
          IF frame_ends_reader(frame)
          THEN /\ feed_state' = "Disconnected"
               /\ chan_open' = FALSE
               /\ feed_log' = Append(feed_log, frame_class(frame))
               /\ UNCHANGED <<feed_pending, feed_frames_left>>
          ELSE /\ feed_frames_left > 0
               /\ feed_frames_left' = feed_frames_left - 1
               /\ feed_pending' = handle_message(frame)
               /\ feed_log' = Append(feed_log, frame_class(frame))
               /\ UNCHANGED <<feed_state, chan_open>>
    /\ UNCHANGED <<config, lockVars, detVars, regVars, pollVars, wsVars, feed_token_ids,
                   feed_subs, chan, prices>>

\* handle_message hands its next event to process_event, which sends the
\* update it makes, waiting while the channel is full
FeedProcessEvent ==
    /\ feed_state = "Streaming"
    /\ feed_pending # <<>>
    /\ LET update == process_event(Head(feed_pending))
       IN  IF IsSome(update)
           THEN /\ Len(chan) < ChanCap
                /\ chan' = Append(chan, Unwrap(update))
           ELSE UNCHANGED chan
    /\ feed_pending' = Tail(feed_pending)
    /\ UNCHANGED <<config, lockVars, detVars, regVars, pollVars, wsVars, feed_state,
                   feed_token_ids, feed_subs, feed_frames_left, feed_log, chan_open,
                   prices>>

\* ws_client.rx.recv() yields an update: it is written to the price index
\* and check_arb_from_cache is asked; an opportunity would be counted and
\* given to handle_opportunity, up to its call of execute_arbitrage
ConsumerRecv ==
    /\ ws_pc = "streaming"
    /\ chan # <<>>
    /\ chan' = Tail(chan)
    /\ prices' = MapInsert(prices, Head(chan).asset_id, Head(chan))
    /\ LET opp == check_arb_from_cache(prices', market_cache, config)
       IN  IF IsSome(opp)
           THEN LET size == trade_size(config, Unwrap(opp))
                    live == ~dry_run_gate(config) /\ ~size_too_small(size)
                IN  /\ stats' = [stats EXCEPT
                                   !.opportunities_found = @ + 1,
                                   !.trades_executed =
                                       IF live THEN @ + 1 ELSE @]
                    /\ exec' = [exec EXCEPT
                                   !.calls = IF live THEN @ + 1 ELSE @]
           ELSE UNCHANGED <<stats, exec>>
    /\ UNCHANGED <<config, lockVars, detVars, regVars, wsVars, poll_pc, refresh_counter,
                   ticks_left, scan_pairs, scan_books, scan_result, scan_opps,
                   opp_i, feed_state, feed_token_ids, feed_subs, feed_pending,
                   feed_frames_left, feed_log, chan_open>>

\* mutant of recv_none: the loop leaves as soon as nothing is queued
recv_none_when_idle(queue, sender_alive) == queue = <<>>

\* `rx.recv().await` yields None: nothing is queued and the Sender, which
\* the reader task owns, has been dropped
recv_none(queue, sender_alive) == queue = <<>> /\ ~sender_alive

\* mutant of ConsumerClosed: run_websocket_mode returns when the feed ends
ConsumerClosed_returns ==
    /\ ws_pc = "streaming"
    /\ chan = <<>>
    /\ ~chan_open
    /\ ws_pc' = "off"
    /\ UNCHANGED <<config, lockVars, detVars, regVars, pollVars, feedVars,
                   reconnect_delay, ws_attempts_left, ws_connects, ws_waited>>

\* ws_client.rx.recv() yields None: the channel is empty and its Sender is
\* gone; the loop leaves the connection and goes to its sleep
ConsumerClosed ==
    /\ ws_pc = "streaming"
    /\ recv_none(chan, chan_open)
    /\ ws_pc' = "sleeping"
    /\ UNCHANGED <<config, lockVars, detVars, regVars, pollVars, feedVars,
                   reconnect_delay, ws_attempts_left, ws_connects, ws_waited>>

StreamNext ==
    \/ FeedConnectStart
    \/ FeedConnectErr
    \/ FeedSubscribe
    \/ FeedSpawnReader
    \/ FeedFrame
    \/ FeedProcessEvent
    \/ ConsumerRecv
    \/ ConsumerClosed
    \/ WsSleepDone

SpecStream == StreamInit /\ [][StreamNext]_vars

\* The same, with what the runtime guarantees: a sleep ends, a ready
\* receiver or sender is resumed, the loop calls connect again. Nothing is
\* assumed of the venue or the network.
SpecStreamLive ==
    /\ SpecStream
    /\ WF_vars(WsSleepDone)
    /\ WF_vars(ConsumerRecv)
    /\ WF_vars(ConsumerClosed)
    /\ WF_vars(FeedProcessEvent)

-----------------------------------------------------------------------------
(* Claims about the feed and the streaming loop *)

\* connect has failed, or the established feed has ended
FeedDown ==
    /\ feed_state = "Disconnected"
    /\ ws_pc \in {"streaming", "sleeping"}

\* The reconnection loop is at its top, where it calls WsClient::connect
AtConnect == ws_pc = "connecting" /\ feed_state = "Disconnected"

\* C21: reconnection never gives up: whenever a connection attempt has
\* failed or an established feed has ended (close frame, read error, end of
\* stream), the loop comes back to calling connect, however many failures
\* came before.
C21_ReconnectsForever == FeedDown ~> AtConnect

\* C21 witness: a feed was established and ended, two attempts after it
\* failed, and the loop is about to connect again
C21_Witness ==
    /\ AtConnect
    /\ ws_connects = 1
    /\ ws_waited = <<1, 2, 4>>

\* The moves of the feed: the cycle, and a failed connect
FeedMoves ==
    { <<"Disconnected", "Connecting">>, <<"Connecting", "Subscribed">>,
      <<"Subscribed", "Streaming">>, <<"Streaming", "Disconnected">>,
      <<"Connecting", "Disconnected">> }

\* Exactly one subscription message was sent on the current connection, and
\* it names every token id handed to connect
SubscribedToAll ==
    /\ feed_token_ids # {}
    /\ feed_subs = <<feed_token_ids>>

\* C22: the feed moves Disconnected -> Connecting -> Subscribed -> Streaming
\* -> Disconnected; a PriceUpdate is sent to, or received by, the consumer
\* only on a connection whose single subscription message named all
\* token_ids; the end of a streaming feed closes the consumer channel; and
\* the loop leaves a connection only once that channel is closed and
\* drained, going to connect again only through the backoff sleep.
C22_FeedLifecycle ==
    /\ [][ feed_state' # feed_state =>
              <<feed_state, feed_state'>> \in FeedMoves ]_vars
    /\ []((chan # <<>> \/ feed_pending # <<>>) => SubscribedToAll)
    /\ [][ (chan' # chan \/ prices' # prices) =>
              (SubscribedToAll /\ feed_subs' = feed_subs) ]_vars
    /\ [](chan_open <=> feed_state = "Streaming")
    /\ [][ (ws_pc = "streaming" /\ ws_pc' # "streaming") =>
              (~chan_open /\ chan = <<>> /\ ws_pc' = "sleeping") ]_vars
    /\ [][ (ws_pc # "connecting" /\ ws_pc' = "connecting") =>
              (ws_pc = "sleeping"
                 /\ ws_waited' = Append(ws_waited, reconnect_delay)) ]_vars

\* C22 witness: updates were received on a subscribed connection, the feed
\* ended, the channel is closed and drained and the loop is in its sleep
C22_Witness ==
    /\ ws_connects = 1
    /\ prices # <<>>
    /\ feed_state = "Disconnected"
    /\ ~chan_open
    /\ ws_pc = "sleeping"
    /\ feed_subs = <<{"t1", "t2"}>>

\* The side is present and has at least one level
HasLevel(side) == side # None /\ side[1] # <<>>

\* The reader task sends an update on this step
Forwards == Len(chan') > Len(chan)

\* The reader task reads a frame on this step
ReadsFrame == feed_log' # feed_log

\* process_event is done with an event on this step
ProcessesEvent == feed_pending # <<>> /\ feed_pending' = Tail(feed_pending)

\* C23: a PriceUpdate is forwarded only for an event of type "book" that has
\* at least one bid or at least one ask, and it carries that event's asset
\* and first bid and ask prices; a book event with both sides empty or
\* absent, a price_change, a last_trade_price and any other event forward
\* nothing.
C23_OnlyBooksForwarded ==
    [][ /\ Forwards =>
            /\ ProcessesEvent
            /\ Head(feed_pending).event_type = "book"
            /\ \/ HasLevel(Head(feed_pending).bids)
               \/ HasLevel(Head(feed_pending).asks)
            /\ Len(chan') = Len(chan) + 1
            /\ chan'[Len(chan')].asset_id = Head(feed_pending).asset_id
        /\ (ProcessesEvent
              /\ \/ Head(feed_pending).event_type # "book"
                 \/ /\ ~HasLevel(Head(feed_pending).bids)
                    /\ ~HasLevel(Head(feed_pending).asks))
           => chan' = chan ]_vars

\* C23 witness: the one frame read so far has been handled, and the update
\* of a book event with an ask and no bid is in the channel
C23_Witness ==
    /\ feed_state = "Streaming"
    /\ feed_log = <<"events">>
    /\ feed_pending = <<>>
    /\ Len(chan) = 1
    /\ chan[1].best_bid = None
    /\ chan[1].best_ask = Some(410)
    /\ prices = <<>>

\* C24: a text frame that cannot be decoded is skipped without error, and so
\* is an event of an unrecognized type: the reader task stays in Streaming
\* with the channel open and nothing is forwarded for it; frames read after
\* it are handled as usual.
C24_BadFramesSkipped ==
    [][ /\ (ReadsFrame /\ feed_log'[Len(feed_log')] = "undecodable") =>
            /\ feed_state' = "Streaming"
            /\ chan_open'
            /\ chan' = chan
            /\ feed_pending' = <<>>
        /\ (ProcessesEvent
              /\ Head(feed_pending).event_type
                    \notin {"book", "price_change", "last_trade_price"}) =>
            /\ feed_state' = "Streaming"
            /\ chan_open'
            /\ chan' = chan ]_vars

\* C24 witness: an undecodable frame was read, and the book event of the
\* frame after it was forwarded on the same connection
C24_Witness ==
    /\ feed_log = <<"undecodable", "events">>
    /\ ws_connects = 1
    /\ feed_state = "Streaming"
    /\ chan_open
    /\ chan # <<>>

\* The consumer loop takes an update from the channel on this step
ReceivesUpdate == ws_pc = "streaming" /\ chan # <<>> /\ chan' = Tail(chan)

SignFailed ==
    /\ poll_pc = "signing"
    /\ exec.sign.yes # "pending" /\ exec.sign.no # "pending"
    /\ exec.sign.yes = "err" \/ exec.sign.no = "err"

\* C30: orders are submitted only when both legs were built and signed; when
\* either leg's signing failed, execute returns an error, no order of either
\* leg is submitted, and trades_successful and total_profit keep their
\* values although trades_executed already counts the attempt.
C30_SignFailureSubmitsNothing ==
    /\ [][ exec'.submitted # exec.submitted =>
              (exec.sign.yes = "ok" /\ exec.sign.no = "ok") ]_vars
    /\ [][ (SignFailed /\ poll_pc' # "signing") =>
              /\ exec'.returned = Some(Err)
              /\ exec'.submitted = exec.submitted
              /\ exec'.post = [yes |-> PostIdle, no |-> PostIdle]
              /\ exec'.alerts = exec.alerts
              /\ stats' = stats
              /\ stats.trades_executed = exec.calls
              /\ exec.calls > exec.submitted \div 2 ]_vars

\* The first attempt ended with the NO leg unsigned: it is counted as
\* executed, nothing was submitted and nothing was gained
C30_Witness ==
    /\ exec.returned = Some(Err)
    /\ exec.calls = 1
    /\ exec.submitted = 0
    /\ stats.trades_executed = 1
    /\ stats.trades_successful = 0
    /\ stats.total_profit = 0

\* The polling loop begins a turn on this step
StartsTick == poll_pc = "tick" /\ refresh_counter' = refresh_counter + 1

\* This turn is one on which the registry is refreshed
RefreshDue == refresh_counter' % RefreshEvery = 0

\* refresh_markets was called by the loop on this step
RefreshAttempted ==
    /\ ref_caller' = "loop"
    /\ ref_pre' = market_cache
    /\ IsSome(ref_result')
    /\ ref_fetch' \in {"ok", "err"}

\* C26: every turn of the polling loop performs one whole scan, of the cache
\* as the turn's refresh left it, and goes on to handle what the scan
\* returned; a refresh is attempted on every 100th turn and on no other; a
\* failed refresh leaves the cache as it was and the turn still scans; and
\* the loop begins its next turn only when every returned opportunity has
\* been dispatched.
C26_TickScansAndDispatches ==
    /\ [][ StartsTick =>
              /\ poll_pc' = "handling"
              /\ IsSome(scan_result')
              /\ opp_i' = 0
              /\ \A i \in DOMAIN scan_opps' :
                    scan_opps'[i].market_id \in DOMAIN market_cache'
              /\ IF RefreshDue
                 THEN /\ RefreshAttempted
                      /\ ref_result' = Some(Err) => market_cache' = market_cache
                 ELSE UNCHANGED regVars ]_vars
    /\ [][ (poll_pc = "handling" /\ poll_pc' = "tick") =>
              opp_i = Len(scan_opps) ]_vars

-----------------------------------------------------------------------------
(* main.rs: main(), from its initial refresh to the drive loop it enters   *)

\* Listings the initial refresh can get: none, one without a YES/NO pair,
\* and two with one pair each
MainListings == { <<>>, <<Mkt("m3")>>, <<Mkt("m1")>>, <<EuroMarket>> }

\* Polling, dry or live, and streaming
MainConfigs ==
    { [DefaultConfig EXCEPT !.use_websocket = FALSE, !.dry_run = dry] :
         dry \in BOOLEAN }
    \cup { [DefaultConfig EXCEPT !.dry_run = FALSE] }

\* main() is about to make its initial refresh
MainInit ==
    /\ config \in MainConfigs
    /\ DetIdle
    /\ RegIdle
    /\ PollIdle
    /\ WsIdle
    /\ FeedIdle

\* run_websocket_mode is entered: its reconnection loop is at its top
EnterStreaming ==
    /\ ws_pc' = "connecting"
    /\ reconnect_delay' = InitialDelay
    /\ ws_attempts_left' = StreamAttempts
    /\ feed_frames_left' = MaxFrames
    /\ UNCHANGED <<ws_connects, ws_waited, feed_state, feed_token_ids,
                   feed_subs, feed_pending, feed_log, chan, chan_open, prices,
                   pollVars>>

\* run_polling_mode is entered (and followed from its first tick, or from
\* shortly before the tick of a refresh)
EnterPolling ==
    /\ ticks_left' = MaxTicks
    /\ refresh_counter' \in {0, RefreshEvery - 2}
    /\ stats' = [stats EXCEPT !.scans_completed = refresh_counter']
    /\ UNCHANGED <<poll_pc, scan_pairs, scan_books, scan_result, scan_opps,
                   opp_i, exec, wsVars, feedVars>>

\* mutant of no_markets: main goes on whatever the count
no_markets_ignored(count) == FALSE

\* `if market_count == 0 { return Ok(()); }`
no_markets(count) == count = 0

\* main()'s initial refresh_markets and what main() does with its result:
\* `?` on Err, return Ok(()) on a count of zero, else the mode's loop
MainStart ==
    /\ phase = "startup"
    /\ \E outcome \in {None} \cup {Some(l) : l \in MainListings} :
          IF outcome = None
          THEN /\ phase' = "exited_err"
               /\ ref_fetch' = "err"
               /\ ref_result' = Some(Err)
               /\ UNCHANGED <<market_cache, cache_origin, ref_markets, ref_i,
                              ref_count, pollVars, wsVars, feedVars>>
          ELSE LET markets == Take(Unwrap(outcome), config.max_markets)
                   cache   == refresh_inserts(<<>>, markets, 1)
                   count   == count_pairs(markets, 1)
               IN  /\ ref_fetch' = "ok"
                   /\ ref_markets' = markets
                   /\ ref_i' = Len(markets)
                   /\ ref_count' = count
                   /\ ref_result' = Some(Ok(count))
                   /\ market_cache' = cache
                   /\ cache_origin' = OriginOf(markets, cache)
                   /\ IF no_markets(count)
                      THEN /\ phase' = "exited_ok"
                           /\ UNCHANGED <<pollVars, wsVars, feedVars>>
                      ELSE /\ phase' = "running"
                           /\ IF config.use_websocket
                              THEN EnterStreaming
                              ELSE EnterPolling
    /\ UNCHANGED <<config, lockVars, detVars, ref_pc, ref_caller, ref_pre, snapshot,
                   read_pre, read_post>>

\* The statistics printer run_websocket_mode spawns: every 30 seconds it
\* takes a read guard, which it gets once no write guard is alive, and
\* prints the counters
StatsPrinter ==
    /\ ws_pc # "off"
    /\ stats_lock # "write"
    /\ stats_seen' = Some(observe(stats, poll_pc))
    /\ UNCHANGED <<config, stats_lock, detVars, regVars, pollVars, wsVars,
                   feedVars>>

MainNext ==
    \/ MainStart
    \/ StatsPrinter
    \/ Tick
    \/ HandleOpportunity
    \/ SignLeg
    \/ SignJoin
    \/ PostLeg
    \/ PostJoin
    \/ LoopEnd
    \/ FeedConnectStart
    \/ FeedConnectErr
    \/ FeedSubscribe
    \/ FeedSpawnReader
    \/ FeedFrame
    \/ FeedProcessEvent
    \/ ConsumerRecv
    \/ ConsumerClosed
    \/ WsSleepDone

SpecMain == MainInit /\ [][MainNext]_vars

\* The process has ended: main() has returned, or a panic has unwound it
Terminated ==
    \/ phase \in {"exited_ok", "exited_err"}
    \/ poll_pc = "panicked"

\* C25: main() returns Ok early only when its initial refresh counted no
\* market; when it counted at least one, the drive loop is entered and the
\* process never ends afterwards.
C25_RunsForever ==
    /\ [](phase = "exited_ok" => (ref_fetch = "ok" /\ ref_count = 0))
    /\ [][ (phase = "startup" /\ ref_fetch' = "ok" /\ ref_count' >= 1) =>
              phase' = "running" ]_vars
    /\ [](phase = "running" => ~Terminated)
    /\ [][ phase = "running" => phase' = "running" ]_vars

-----------------------------------------------------------------------------
(* The detector as a function (checked under SpecDetector) *)

\* An opportunity without its detection time
Untimed(opp) == [opp EXCEPT !.timestamp = 0]

-----------------------------------------------------------------------------
(* The statistics and their lock (checked under SpecMain) *)

\* An execute_arbitrage call is awaited: trades_executed counts it and its
\* outcome is not yet applied
MidTrade == poll_pc \in {"signing", "posting"}

\* C27: once the drive loop runs, the statistics change only on a step after
\* which the write guard is alive (the step that takes it, or one made
\* while it is held); the guard is alive for as long as a trade's outcome is
\* awaited; and no statistics print, of the polling loop or of the printer
\* task, has read the counters in the middle of a trade.
C27_StatsUnderLock ==
    /\ [][ (phase = "running" /\ stats' # stats) =>
              stats_lock' = "write" ]_vars
    /\ [](MidTrade => stats_lock = "write")
    /\ [][ stats_seen' # stats_seen =>
              (stats_lock' = "free" /\ ~MidTrade') ]_vars
    /\ [](IsSome(stats_seen) => ~Unwrap(stats_seen).mid_trade)

\* The 100th turn of a live polling loop made a trade that succeeded, and
\* the print after it showed the trade counted and its profit applied
C27_Witness ==
    /\ refresh_counter = RefreshEvery
    /\ poll_pc = "tick"
    /\ stats_lock = "free"
    /\ IsSome(stats_seen)
    /\ Unwrap(stats_seen).shown = stats
    /\ stats.trades_executed = 1
    /\ stats.trades_successful = 1
    /\ stats.total_profit > 0

-----------------------------------------------------------------------------
(* The run statistics as counters (checked under SpecPolling) *)

\* C31: trades_successful <= trades_executed <= opportunities_found in
\* every state; no counter ever decreases; and total_profit changes only on
\* a step that adds one to trades_successful.
C31_CountersOrdered ==
    /\ []( /\ stats.trades_successful <= stats.trades_executed
           /\ stats.trades_executed <= stats.opportunities_found )
    /\ [][ /\ stats'.opportunities_found >= stats.opportunities_found
           /\ stats'.trades_executed >= stats.trades_executed
           /\ stats'.trades_successful >= stats.trades_successful
           /\ stats'.scans_completed >= stats.scans_completed
           /\ stats'.total_profit >= stats.total_profit ]_vars
    /\ [][ stats'.total_profit # stats.total_profit =>
              stats'.trades_successful = stats.trades_successful + 1 ]_vars

\* Two opportunities of one scan were traded, one with both legs filled and
\* one not
C31_Witness ==
    /\ stats.opportunities_found = 2
    /\ stats.trades_executed = 2
    /\ stats.trades_successful = 1
    /\ stats.total_profit > 0
    /\ poll_pc = "handling"
    /\ opp_i = 2

-----------------------------------------------------------------------------
(* One execution at a time (checked under SpecExec) *)

\* No build_and_sign_order and no post_order call is in progress
NoLegInProgress ==
    /\ exec.sign = [yes |-> "idle", no |-> "idle"]
    /\ exec.post = [yes |-> PostIdle, no |-> PostIdle]

\* C32: execute_arbitrage is called for the opportunity the for loop is at,
\* and only when no leg of an earlier call is being signed or awaited and
\* that call, if any, has returned and every trade counted so far is one it
\* made; the loop moves from one opportunity to the next, never back and
\* never past one; and orders are signed or submitted only while the loop
\* waits in the one call in progress.
C32_OneExecutionAtATime ==
    /\ [][ exec'.calls # exec.calls =>
              /\ exec'.calls = exec.calls + 1
              /\ poll_pc = "handling"
              /\ NoLegInProgress
              /\ (exec.calls >= 1 => IsSome(exec.returned))
              /\ stats.trades_executed = exec.calls
              /\ opp_i' = opp_i
              /\ exec'.orders[1].token_id = scan_opps[opp_i + 1].yes_token_id
              /\ exec'.orders[2].token_id = scan_opps[opp_i + 1].no_token_id ]_vars
    /\ [][ opp_i' # opp_i => (opp_i' = opp_i + 1 /\ NoLegInProgress') ]_vars
    /\ [](~NoLegInProgress => (Executing /\ opp_i < Len(scan_opps)))
    /\ [][ exec'.submitted # exec.submitted => Executing ]_vars

\* The second opportunity of a scan is being executed, its legs submitted,
\* after the first one's execution returned with both legs filled
C32_Witness ==
    /\ exec.calls = 2
    /\ opp_i = 1
    /\ poll_pc = "posting"
    /\ exec.post.yes = PostPending
    /\ stats.trades_executed = 2
    /\ stats.trades_successful = 1

-----------------------------------------------------------------------------
(* The size of the registry (checked under SpecRegistry) *)

\* C33 as stated: the cache never holds more than max_markets pairs, and the
\* count a successful refresh returned is the number of pairs in the cache.
C33_CacheBounded ==
    /\ Cardinality(DOMAIN market_cache) <= config.max_markets
    /\ (ref_pc = "idle" /\ ref_fetch = "ok") =>
          ref_result = Some(Ok(Cardinality(DOMAIN market_cache)))

-----------------------------------------------------------------------------
(* The token list handed to the feed (checked under SpecMain) *)

\* The reconnection loop calls WsClient::connect on this step
CallsConnect ==
    /\ phase = "running"
    /\ ws_pc = "connecting"
    /\ ws_attempts_left' = ws_attempts_left - 1

\* C34: every call of connect by the reconnection loop hands it the token
\* ids of at least one cached pair, so at least two, and connect goes on to
\* open the connection; a feed that has left Disconnected was given a
\* non-empty token list; and streaming mode is entered only with a
\* non-empty cache.
C34_NeverConnectsEmpty ==
    /\ [][ CallsConnect =>
              /\ Cardinality(feed_token_ids') >= 2
              /\ feed_token_ids' = TokensOf(market_cache)
              /\ feed_state' = "Connecting" ]_vars
    /\ [](feed_state # "Disconnected" => feed_token_ids # {})
    /\ [](ws_pc # "off" => market_cache # <<>>)

\* A second call of connect, after the first failed and one second was
\* slept, names the two tokens of the cached pair
C34_Witness ==
    /\ phase = "running"
    /\ config.use_websocket
    /\ feed_state = "Connecting"
    /\ ws_attempts_left = StreamAttempts - 2
    /\ ws_connects = 0
    /\ feed_token_ids = {"t1", "t2"}

-----------------------------------------------------------------------------
(* One connection at a time (checked under SpecStream) *)

\* The reconnection loop is between two connections: asleep, or at its top
\* with connect not yet called
BetweenConnections ==
    \/ ws_pc = "sleeping"
    \/ ws_pc = "connecting" /\ feed_state = "Disconnected"

\* The reader task of the last connection has ended and its channel is
\* closed and empty
LastConnectionOver ==
    /\ feed_state \in {"Disconnected"}
    /\ ~chan_open
    /\ chan = <<>>
    /\ feed_pending = <<>>

\* C35: whenever the reconnection loop is between two connections, and so
\* whenever it calls connect, the reader task of the connection before has
\* ended and its channel is closed and drained; a reader task is spawned
\* only onto an empty channel; and updates are queued or received only
\* while the loop is inside the one connection it made last.
C35_OneConnectionAtATime ==
    /\ [](BetweenConnections => LastConnectionOver)
    /\ [][ (feed_state # "Connecting" /\ feed_state' = "Connecting") =>
              LastConnectionOver ]_vars
    /\ [][ ws_connects' # ws_connects =>
              (ws_connects' = ws_connects + 1 /\ chan = <<>> /\ ~chan_open) ]_vars
    /\ [][ (chan' # chan \/ prices' # prices) => ws_pc = "streaming" ]_vars

\* A second connection is streaming and has queued an update, after the
\* first one delivered an update and ended
C35_Witness ==
    /\ ws_connects = 2
    /\ feed_state = "Streaming"
    /\ chan_open
    /\ Len(chan) = 1
    /\ prices # <<>>
    /\ Len(feed_log) = 3

=============================================================================
